---- MODULE Spec2Model ----
(***************************************************************************)
(* State-machine model of the trading bot's order lifecycle:               *)
(*   - OrderTracker   (order_tracker.py): poll cycle, fill detection,      *)
(*                     stale cancel, pending_orders mirror                 *)
(*   - PortfolioManager (portfolio.py): positions, trade ledger, P&L       *)
(*   - Trader / OrderManager (trader.py, order_manager.py): buy, sell,     *)
(*                     automated TP / SL / trailing / OCO orders, monitor  *)
(* Sizes are whole shares, prices are exact rationals in cents.            *)
(***************************************************************************)
EXTENDS Integers, Sequences, FiniteSets, Bags, TLC

\* ---------------------------------------------------------------- bounds
MaxOrders == 2      \* order ids the exchange hands out in one run
MaxAuto   == 2      \* AutoOrders generated in one run
MaxDeliveries == 2  \* on_fill deliveries after which an order is not re-tracked
MaxDay == 2         \* calendar days one run lasts
MaxLedger == 4      \* rows of the trade ledger in a run of direct portfolio calls

\* ------------------------------------------------------ program constants
max_trade_size     == 100     \* dollars, config.TradingConfig
max_total_exposure == 1000    \* dollars, config.TradingConfig
max_spread_bps     == 150     \* config.LiveSafetyConfig
bankroll           == 50      \* dollars, AutoTradeConfig
max_bet_size       == 10      \* dollars, AutoTradeConfig
max_open_positions == 5       \* AutoTradeConfig
reserve_percent    == 20      \* AutoTradeConfig
take_profit_percent == 30     \* AutoTradeConfig
stop_loss_percent  == 15      \* AutoTradeConfig

\* ----------------------------------------------------------- input sets
Tokens      == {"tokY", "tokN"}
SideOf(t)   == IF t = "tokY" THEN "YES" ELSE "NO"
\* <<size, limit price, post_order accepted>> offered to buy(): a valid trade,
\* accepted or refused by the exchange, and one trade for each way
\* _validate_trade refuses (size, price range, max_trade_size)
BuyInputs   == {<<4, 50, TRUE>>, <<4, 50, FALSE>>, <<0, 50, TRUE>>,
                <<4, 100, TRUE>>, <<300, 50, TRUE>>}
\* <<size, bids in the book, post_order accepted>> offered to market_sell()
SellInputs  == {<<4, {50}, TRUE>>, <<4, {50}, FALSE>>, <<4, {}, TRUE>>}
\* <<take_profit_price, stop_loss_price>> given to set_oco; the second pair
\* triggers both orders at one price
OcoInputs   == {<<70, 30>>, <<50, 50>>}
FillSizes   == {2}                   \* sizes of single exchange trades
TradeCents  == <<50, 48>>            \* price of the k-th trade against an order

\* ------------------------------------------------------ exact rationals
RECURSIVE Gcd(_, _)
Gcd(a, b) == IF b = 0 THEN a ELSE Gcd(b, a % b)

Abs(x) == IF x < 0 THEN -x ELSE x

\* the rational n/d (d > 0) in lowest terms
Rat(n, d) ==
    LET g == Gcd(Abs(n), d)
    IN  IF n = 0 THEN <<0, 1>> ELSE <<n \div g, d \div g>>

RInt(n)      == <<n, 1>>
\* sums and comparisons go over the least common denominator, products are
\* reduced crosswise first: the same values, within the integer range
RAdd(x, y)   == LET g == Gcd(x[2], y[2]) IN Rat(x[1] * (y[2] \div g) + y[1] * (x[2] \div g), (x[2] \div g) * y[2])
RSub(x, y)   == LET g == Gcd(x[2], y[2]) IN Rat(x[1] * (y[2] \div g) - y[1] * (x[2] \div g), (x[2] \div g) * y[2])
RMul(x, y)   == LET g == Gcd(Abs(x[1]), y[2]) h == Gcd(Abs(y[1]), x[2]) IN Rat((x[1] \div g) * (y[1] \div h), (x[2] \div h) * (y[2] \div g))
RScale(k, x) == Rat(k * x[1], x[2])
\* x / k for an integer k > 0
RDivInt(x, k) == Rat(x[1], x[2] * k)
RLt(x, y)    == LET g == Gcd(x[2], y[2]) IN x[1] * (y[2] \div g) < y[1] * (x[2] \div g)
RLe(x, y)    == LET g == Gcd(x[2], y[2]) IN x[1] * (y[2] \div g) <= y[1] * (x[2] \div g)
RMax(x, y)   == IF RLt(x, y) THEN y ELSE x
RZero        == <<0, 1>>

\* ------------------------------------------------------------ variables
VARIABLES
    has_auth,       \* clients.has_auth
    orders,         \* OrderTracker._orders : order id -> TrackedOrder
    pending,        \* Store table pending_orders
    pollQ,          \* orders of the running poll cycle still to be checked
    exch,           \* the exchange's own state of each order it accepted
    nextOid,        \* order ids handed out so far
    positions,      \* PortfolioManager.positions : token_side -> Position
    realized_pnl,   \* PortfolioManager.realized_pnl (cents)
    trades,         \* trade ledger (table trades / trade_history), as a bag of rows
    omPositions,    \* OrderManager.positions : token -> Position
    autoOrders,     \* OrderManager.orders : id -> AutoOrder
    order_counter,  \* OrderManager._order_counter
    mon,            \* position of the monitor loop inside its tick
    fillCalls,      \* history: on_fill deliveries per order id, in order
    cancelCalls,    \* history: on_cancel deliveries per order id
    buyResults,     \* history: the ids buy_with_tp_sl returned
    sellCalls,      \* history: market sells submitted per AutoOrder
    dbPositions,    \* Store table positions : token_side -> row
    evaluated,      \* history: AutoOrders _check_order looked at in this scan cycle
    kill_switch,    \* config.safety.kill_switch
    pnl_day,        \* Store state "pnl_day"
    today,          \* the calendar day (datetime.now().date())
    realized_pnl_day_start, \* Store state "realized_pnl_day_start" (cents)
    bot_realized_pnl,       \* AutoTrader.portfolio.realized_pnl (cents)
    scan,           \* position of AutoTrader.run_once inside its cycle
    active_bets,    \* AutoTrader.active_bets
    lock_holder,    \* the thread inside each threading.Lock, or "none"
    thread_pc,      \* where each thread stands between the tracker and the API
    auth_initialized, \* ClientManager._auth_initialized
    auth_client,    \* ClientManager._auth_client / _auth_error, and the runs of _init_auth_client
    read_client,    \* ClientManager._read_client is set
    thread_client,  \* the gateway client a thread is calling through
    last_call_time, \* RateLimitedClient._last_call_time of each gateway client
    now,            \* time.monotonic(), in ticks
    momentum_call,  \* the last find_momentum_signals call: its markets and its result
    arb_scan,       \* position of find_arbitrage_signals inside its loop
    signals_call,   \* the last find_signals call: its arguments and its result
    running,        \* OrderTracker._running
    workers,        \* the threads inside _poll_loop / poll_once: pc and locals
    stale_seen,     \* the orders whose is_stale has read true
    cancel_returned \* (history) the AutoOrders for which cancel_order returned True

trackerVars   == <<orders, pending, pollQ>>
exchangeVars  == <<exch, nextOid>>
portfolioVars == <<positions, realized_pnl, trades, omPositions, dbPositions>>
autoVars      == <<autoOrders, order_counter, mon, sellCalls, evaluated>>
safetyVars    == <<kill_switch, pnl_day, today, realized_pnl_day_start,
                   bot_realized_pnl, scan, active_bets>>
historyVars   == <<fillCalls, cancelCalls, buyResults>>
lockVars      == <<lock_holder, thread_pc, auth_initialized, auth_client,
                   read_client, thread_client, last_call_time, now>>
strategyVars  == <<momentum_call, arb_scan, signals_call>>
pollerVars    == <<running, workers, stale_seen>>
vars == <<has_auth, trackerVars, exchangeVars, portfolioVars, autoVars,
          historyVars, safetyVars, lockVars, strategyVars, pollerVars, cancel_returned>>

\* no call made yet
NoCall == [called |-> FALSE, markets |-> <<>>, result |-> <<>>]
ArbIdle == [called |-> FALSE, pc |-> "idle", markets |-> <<>>, todo |-> <<>>,
            yes_ask |-> <<0, 0>>, no_ask |-> <<0, 0>>, fetched |-> <<>>,
            signals |-> <<>>, result |-> <<>>]
NoSignalsCall == [called |-> FALSE, strategies |-> <<>>, min_edge_pct |-> RZero,
                  max_results |-> 0, result |-> <<>>, error |-> FALSE]

\* the threads of the bot: the tracker's poll thread, the scan loop, the monitor
Threads == {"poll", "scan", "monitor"}
\* the threads that can be inside OrderTracker._check_all_orders: the
\* threads start() made, and a thread calling poll_once()
LoopThreads == {"loop1", "loop2"}
Workers == LoopThreads \cup {"caller"}
NoApi == [status |-> "NONE", size_matched |-> 0, trades |-> <<>>,
          has_price |-> FALSE, price |-> <<0, 1>>, full |-> FALSE]
NoWorker == [pc |-> "dead", active |-> <<>>, api |-> NoApi, prev_filled |-> 0]
\* the two gateway clients, each wrapped in a RateLimitedClient of its own
Clients == {"read", "auth"}
limiter_lock(c) == IF c = "read" THEN "RateLimitedClient._lock of read"
                   ELSE "RateLimitedClient._lock of auth"
Locks == {"OrderTracker._lock", "ClientManager._lock"} \cup {limiter_lock(c) : c \in Clients}
\* RateLimitedClient._min_interval in ticks, and the last tick of the clock
MinInterval == 2
MaxTime == 2

OrderIds == 1..MaxOrders
AutoIds  == 1..MaxAuto
PosKeys  == {<<t, SideOf(t)>> : t \in Tokens}

NoOrder == [status |-> "NONE"]
NoRow   == [status |-> "NONE"]
NoPos   == [present |-> FALSE, size |-> 0, avg_entry_price |-> RZero]
NoAuto  == [state |-> "NONE"]
None    == <<0, 0>>          \* Python's None where a price is optional
NoOmPos == [present |-> FALSE]
MidCents    == {30, 50, 70}          \* midpoints the monitor reads
\* <<take_profit, stop_loss, trailing_stop_percent>> given to buy_with_tp_sl
TpSlInputs  == {<<RInt(70), RInt(30), None>>, <<None, None, Rat(1, 10)>>}
\* get_order_book returned nothing
NoBook == [bids |-> {}, asks |-> {}, present |-> FALSE]
\* run_once between two cycles; todo: opportunities still to enter,
\* arb: the YES leg's result while the NO leg of an arbitrage is placed,
\* tripped: (history) a breaker of this process has set the kill switch,
\* book: (history) the orderbook the spread guard of the last turn fetched
ScanIdle == [busy |-> FALSE, todo |-> <<>>, arb |-> "", bets_placed |-> 0,
             tripped |-> FALSE, book |-> NoBook]
MonIdle == [busy |-> FALSE, active |-> <<>>, tokens |-> {}, price |-> None,
            todo |-> <<>>, exec |-> 0]

\* ===================================================== PortfolioManager
\* A portfolio state is [positions, trades, realized_pnl].

\* Position.cost_basis
cost_basis(pos) == RScale(pos.size, pos.avg_entry_price)

RECURSIVE SumCost(_, _)
SumCost(ps, keys) ==
    IF keys = {} THEN RZero
    ELSE LET k == CHOOSE x \in keys : TRUE
         IN  RAdd(IF ps[k].present THEN cost_basis(ps[k]) ELSE RZero,
                  SumCost(ps, keys \ {k}))

\* PortfolioManager.get_total_exposure
get_total_exposure(ps) == SumCost(ps, PosKeys)

\* PortfolioManager.add_position; oid only tags the ledger row with the
\* delivery it came from (the code's row has no order id).
add_position(P, token_id, side, size, entry_price, oid) ==
    LET key      == <<token_id, side>>
        existing == P.positions[key]
        total_size == existing.size + size
        total_cost == RAdd(RScale(existing.size, existing.avg_entry_price),
                           RScale(size, entry_price))
        avg_price  == IF total_size > 0 THEN RDivInt(total_cost, total_size)
                      ELSE RZero
        newpos == IF existing.present
                  THEN [present |-> TRUE, size |-> total_size,
                        avg_entry_price |-> avg_price]
                  ELSE [present |-> TRUE, size |-> size,
                        avg_entry_price |-> entry_price]
    IN  [P EXCEPT !.positions = [@ EXCEPT ![key] = newpos],
                  !.db_positions = [@ EXCEPT ![key] = newpos],
                  !.trades = @ (+) SetToBag({[token_id |-> token_id, side |-> side,
                                        action |-> "BUY", size |-> size,
                                        price |-> entry_price, oid |-> oid]})]

\* close_position keeping a position whose size has reached 0
close_position_keep_zero(P, token_id, side, size, exit_price, oid) ==
    LET key      == <<token_id, side>>
        position == P.positions[key]
        sz       == IF size > position.size THEN position.size ELSE size
        realized == RSub(RScale(sz, exit_price),
                         RScale(sz, position.avg_entry_price))
        kept     == [position EXCEPT !.size = position.size - sz]
    IN  IF ~position.present THEN P
        ELSE [P EXCEPT
                !.realized_pnl = RAdd(@, realized),
                !.positions = [@ EXCEPT ![key] = kept],
                !.db_positions = [@ EXCEPT ![key] = kept],
                !.trades = @ (+) SetToBag({[token_id |-> token_id, side |-> side,
                                      action |-> "SELL", size |-> sz,
                                      price |-> exit_price, oid |-> oid]})]

\* close_position booking the requested size without the clamp to the
\* held size
close_position_unclamped(P, token_id, side, size, exit_price, oid) ==
    LET key      == <<token_id, side>>
        position == P.positions[key]
        left     == position.size - size
    IN  IF ~position.present THEN P
        ELSE [P EXCEPT
                !.positions = [@ EXCEPT ![key] =
                                 IF left <= 0 THEN NoPos
                                 ELSE [position EXCEPT !.size = left]],
                !.trades = @ (+) SetToBag({[token_id |-> token_id, side |-> side,
                                      action |-> "SELL", size |-> size,
                                      price |-> exit_price, oid |-> oid]})]

\* PortfolioManager.close_position
close_position(P, token_id, side, size, exit_price, oid) ==
    LET key      == <<token_id, side>>
        position == P.positions[key]
        sz       == IF size > position.size THEN position.size ELSE size
        realized == RSub(RScale(sz, exit_price),
                         RScale(sz, position.avg_entry_price))
        left     == position.size - sz
    IN  IF ~position.present THEN P
        ELSE [P EXCEPT
                !.realized_pnl = RAdd(@, realized),
                !.positions = [@ EXCEPT ![key] =
                                 IF left <= 0 THEN NoPos
                                 ELSE [position EXCEPT !.size = left]],
                !.db_positions = [@ EXCEPT ![key] =
                                 IF left <= 0 THEN NoPos
                                 ELSE [position EXCEPT !.size = left]],
                !.trades = @ (+) SetToBag({[token_id |-> token_id, side |-> side,
                                      action |-> "SELL", size |-> sz,
                                      price |-> exit_price, oid |-> oid]})]

\* _on_order_fill handing the order's cumulative filled size to the
\* portfolio instead of the new fill
on_order_fill_cumulative(S, oid, tracked, new_fill_size, fill_price) ==
    IF tracked.order_side = "SELL"
    THEN close_position(S, tracked.token_id, tracked.side, tracked.filled_size,
                        fill_price, oid)
    ELSE add_position(S, tracked.token_id, tracked.side, tracked.filled_size,
                      fill_price, oid)

\* OrderManager._on_order_fill on the state
\* [positions, trades, realized_pnl, omPositions]
on_order_fill(S, oid, tracked, new_fill_size, fill_price) ==
    IF tracked.order_side = "SELL"
    THEN close_position(S, tracked.token_id, tracked.side, new_fill_size,
                        fill_price, oid)
    ELSE [add_position(S, tracked.token_id, tracked.side, new_fill_size,
                       fill_price, oid)
            EXCEPT !.omPositions = [@ EXCEPT ![tracked.token_id] =
                     [present |-> TRUE, side |-> tracked.side,
                      size |-> new_fill_size, entry_price |-> fill_price,
                      take_profit_price |-> None, stop_loss_price |-> None,
                      trailing_stop_percent |-> None]]]

PortfolioState ==
    [positions |-> positions, trades |-> trades,
     realized_pnl |-> realized_pnl, omPositions |-> omPositions,
     db_positions |-> dbPositions]

SetPortfolio(S) ==
    /\ positions' = S.positions
    /\ trades' = S.trades
    /\ realized_pnl' = S.realized_pnl
    /\ omPositions' = S.omPositions
    /\ dbPositions' = S.db_positions

\* ========================================================= OrderTracker
\* TrackedOrder.is_fully_filled : filled_size >= size * 0.999
is_fully_filled(o) == o.filled_size * 1000 >= o.size * 999

\* TrackedOrder.is_terminal
\* is_terminal forgetting the cancelled orders
is_terminal_matched_only(o) == o.status = "MATCHED"

is_terminal(o) ==
    o.status \in {"MATCHED", "CANCELLED", "EXPIRED"} \/ is_fully_filled(o)

\* the TrackedOrder built by track_order
NewTracked(token_id, side, order_side, size, limit_price) ==
    [token_id |-> token_id, side |-> side, order_side |-> order_side,
     size |-> size, limit_price |-> limit_price,
     filled_size |-> 0, avg_fill_price |-> RZero, status |-> "LIVE"]

\* Database.save_pending_order : INSERT OR REPLACE ... 'LIVE', 0, 0
save_pending_order(rows, oid, token_id, side, order_side, size, limit_price) ==
    [rows EXCEPT ![oid] =
        [token_id |-> token_id, side |-> side, order_side |-> order_side,
         size |-> size, limit_price |-> limit_price,
         status |-> "LIVE", filled_size |-> 0, avg_fill_price |-> RZero]]

\* Database.update_pending_order : UPDATE ... WHERE order_id = ?
update_pending_order(rows, oid, status, filled_size, avg_fill_price) ==
    IF rows[oid].status = "NONE" THEN rows
    ELSE [rows EXCEPT ![oid].status = status,
                      ![oid].filled_size = filled_size,
                      ![oid].avg_fill_price = avg_fill_price]

\* OrderTracker.track_order on <<orders, pending>>
track_order(T, oid, token_id, side, order_side, size, limit_price) ==
    [orders  |-> [T.orders EXCEPT ![oid] =
                    NewTracked(token_id, side, order_side, size, limit_price)],
     pending |-> save_pending_order(T.pending, oid, token_id, side,
                                    order_side, size, limit_price)]

RECURSIVE SumSize(_)
SumSize(ts) == IF ts = <<>> THEN 0 ELSE ts[1][1] + SumSize(Tail(ts))

RECURSIVE SumValue(_)
SumValue(ts) == IF ts = <<>> THEN 0 ELSE ts[1][1] * ts[1][2] + SumValue(Tail(ts))

\* _check_order, "Extract fill info": the matched size read from a response
ApiSizeMatched(api) ==
    IF api.trades # <<>> /\ SumSize(api.trades) > api.size_matched
    THEN SumSize(api.trades) ELSE api.size_matched

\* _check_order, "Compute average fill price from trades if available"
ApiFillPrice(api, order) ==
    IF api.trades # <<>>
    THEN IF SumSize(api.trades) > 0
         THEN Rat(SumValue(api.trades), SumSize(api.trades))
         ELSE order.limit_price
    ELSE IF api.has_price THEN api.price ELSE order.limit_price

\* _check_order, "Detect new fills since last check" : new_fill > 0.001
IsNewFill(new_fill) == new_fill * 1000 > 1

\* _check_order, "Weighted average fill price"
NewAvgFillPrice(order, size_matched, fill_price) ==
    LET prev_filled == order.filled_size
        new_fill    == size_matched - prev_filled
    IN  IF RLt(RZero, order.avg_fill_price) /\ prev_filled > 0
        THEN RDivInt(RAdd(RScale(prev_filled, order.avg_fill_price),
                          RScale(new_fill, fill_price)), size_matched)
        ELSE fill_price

\* the status rule leaving a partly filled order LIVE
NewStatusNoPartial(api_status, order) ==
    IF api_status \in {"MATCHED", "FILLED"} \/ is_fully_filled(order)
    THEN "MATCHED"
    ELSE IF api_status = "CANCELLED" THEN "CANCELLED"
    ELSE "LIVE"

\* _check_order, "Update terminal status"
NewStatus(api_status, order) ==
    IF api_status \in {"MATCHED", "FILLED"} \/ is_fully_filled(order)
    THEN "MATCHED"
    ELSE IF api_status = "CANCELLED" THEN "CANCELLED"
    ELSE IF order.filled_size > 0 THEN "PARTIALLY_FILLED" ELSE "LIVE"

\* the fill step taking every response's size_matched as the filled size
AfterFillAlways(order, api) ==
    [order EXCEPT !.filled_size = ApiSizeMatched(api)]

\* the order after the fill step of _check_order
AfterFill(order, api) ==
    LET size_matched == ApiSizeMatched(api)
        fill_price   == ApiFillPrice(api, order)
    IN  IF IsNewFill(size_matched - order.filled_size)
        THEN [order EXCEPT !.filled_size = size_matched,
                           !.avg_fill_price =
                               NewAvgFillPrice(order, size_matched, fill_price)]
        ELSE order

\* _check_all_orders : the non-terminal orders, in dict order
RECURSIVE ActiveFrom(_, _)
ActiveFrom(os, i) ==
    IF i > MaxOrders THEN <<>>
    ELSE IF os[i].status # "NONE" /\ ~is_terminal(os[i])
         THEN <<i>> \o ActiveFrom(os, i + 1)
         ELSE ActiveFrom(os, i + 1)

\* ------------------------------------------------------------- exchange
\* What get_order may answer for an order: a prefix of the exchange's trades
\* (a lagging view shows an earlier, still LIVE, order), with or without the
\* associate_trades detail; the price field is always sent; "FILLED" is a
\* spelling of "MATCHED".
StatusViews(e, k) ==
    IF k < Len(e.trades) THEN {"LIVE"}
    ELSE IF e.status = "MATCHED" THEN {"MATCHED", "FILLED"}
    ELSE {e.status}

Responses(oid) ==
    LET e == exch[oid]
    IN  UNION { { [status |-> st,
                   size_matched |-> SumSize(SubSeq(e.trades, 1, k)),
                   trades |-> IF wt THEN SubSeq(e.trades, 1, k) ELSE <<>>,
                   has_price |-> TRUE, price |-> e.price,
                   full |-> (wt /\ k = Len(e.trades))] :
                  st \in StatusViews(e, k), wt \in BOOLEAN } :
                k \in 0..Len(e.trades) }

NoExch == [status |-> "NONE", trades |-> <<>>, price |-> RZero]

\* ================================================================ Trader
\* Trader._validate_trade : TRUE when the trade passes (amounts in cents)
validate_trade(ps, size, price) ==
    LET trade_value == RScale(size, price)
    IN  /\ size > 0
        /\ RLt(RZero, price) /\ RLt(price, RInt(100))
        /\ RLe(trade_value, RInt(max_trade_size * 100))
        /\ RLe(RAdd(get_total_exposure(ps), trade_value),
               RInt(max_total_exposure * 100))

\* Trader.market_sell : min_price = max(best_bid * (1 - max_slippage), 0.01)
market_sell_price(best_bid) == RMax(RMul(best_bid, Rat(98, 100)), RInt(1))

\* ------------------------------------------------------------------ Init
\* every object freshly constructed; the Portfolio is set apart
FreshObjects ==
    /\ has_auth \in BOOLEAN
    /\ lock_holder = [l \in Locks |-> "none"]
    /\ thread_pc = [t \in Threads |-> "idle"]
    /\ auth_initialized = FALSE
    /\ auth_client = [runs |-> 0, ready |-> FALSE, error |-> FALSE]
    /\ read_client = FALSE
    /\ thread_client = [t \in Threads |-> "none"]
    /\ last_call_time = [c \in Clients |-> 0 - MinInterval]
    /\ now = 0
    /\ momentum_call = NoCall
    /\ arb_scan = ArbIdle
    /\ signals_call = NoSignalsCall
    /\ running = FALSE
    /\ workers = [w \in Workers |-> NoWorker]
    /\ stale_seen = {}
    /\ cancel_returned = {}
    /\ orders = [o \in OrderIds |-> NoOrder]
    /\ pending = [o \in OrderIds |-> NoRow]
    /\ pollQ = <<>>
    /\ exch = [o \in OrderIds |-> NoExch]
    /\ nextOid = 0
    /\ trades = EmptyBag
    /\ omPositions = [t \in Tokens |-> NoOmPos]
    /\ autoOrders = [a \in AutoIds |-> NoAuto]
    /\ order_counter = 0
    /\ mon = MonIdle
    /\ fillCalls = [o \in OrderIds |-> <<>>]
    /\ cancelCalls = [o \in OrderIds |-> 0]
    /\ buyResults = {}
    /\ sellCalls = [a \in AutoIds |-> 0]
    /\ evaluated = {}
    /\ scan = ScanIdle
    /\ active_bets = {}
    /\ today = 1

\* every object freshly constructed on an empty Store
EmptyBooks ==
    /\ FreshObjects
    /\ positions = [k \in PosKeys |-> NoPos]
    /\ dbPositions = [k \in PosKeys |-> NoPos]

\* default configuration (KILL_SWITCH unset) on an empty Store
Init ==
    /\ EmptyBooks
    /\ realized_pnl = RZero
    /\ bot_realized_pnl = RZero
    /\ kill_switch = FALSE
    /\ pnl_day = 0
    /\ realized_pnl_day_start = RZero

\* Tokens are interchangeable: a run names the token of its first order
\* "tokY", so "tokN" appears only once some order on "tokY" exists.
TokenInUse(token_id) ==
    \/ token_id = "tokY"
    \/ \E o \in OrderIds : orders[o].status # "NONE"
    \/ \E a \in AutoIds : autoOrders[a].state # "NONE"

\* --------------------------------------------------- OrderManager.buy
\* Trader.buy (is_ready, _validate_trade, post_order) then track_order.
\* accept: the exchange acknowledges the order with a fresh order id.
BuyAccepted(size, price, accept) ==
    has_auth /\ validate_trade(positions, size, price) /\ accept

\* the call itself: what it does to the tracker and the exchange
BuyCall(token_id, size, price, accept) ==
    /\ nextOid < MaxOrders
    /\ IF BuyAccepted(size, price, accept)
       THEN LET oid == nextOid + 1
                T == track_order([orders |-> orders, pending |-> pending], oid,
                                 token_id, SideOf(token_id), "BUY", size, price)
            IN  /\ nextOid' = oid
                /\ exch' = [exch EXCEPT ![oid] =
                              [status |-> "LIVE", trades |-> <<>>, price |-> price]]
                /\ orders' = T.orders
                /\ pending' = T.pending
       ELSE UNCHANGED <<orders, pending, exch, nextOid>>

Buy(token_id, size, price, accept) ==
    /\ TokenInUse(token_id)
    /\ BuyCall(token_id, size, price, accept)
    /\ UNCHANGED <<has_auth, lockVars, strategyVars, pollerVars, cancel_returned, safetyVars, pollQ, portfolioVars, autoVars,
                   historyVars>>

\* ------------------------------------------- OrderManager.market_sell
\* Trader.market_sell (is_ready, book, sell -> post_order) then track_order
\* with limit_price = result.average_price or 0.0 (Trader.sell sets none).
MarketSell(token_id, size, bids, accept) ==
    LET ok == has_auth /\ bids # {} /\ accept
    IN  /\ TokenInUse(token_id)
        /\ nextOid < MaxOrders
        /\ IF ok
           THEN LET oid == nextOid + 1
                    best_bid == CHOOSE b \in bids : \A c \in bids : c <= b
                    T == track_order([orders |-> orders, pending |-> pending],
                                     oid, token_id, SideOf(token_id), "SELL",
                                     size, RZero)
                IN  /\ nextOid' = oid
                    /\ exch' = [exch EXCEPT ![oid] =
                                  [status |-> "LIVE", trades |-> <<>>,
                                   price |-> market_sell_price(RInt(best_bid))]]
                    /\ orders' = T.orders
                    /\ pending' = T.pending
           ELSE UNCHANGED <<orders, pending, exch, nextOid>>
        /\ UNCHANGED <<has_auth, lockVars, strategyVars, pollerVars, cancel_returned, safetyVars, pollQ, portfolioVars, autoVars, historyVars>>

\* ------------------------------------------------------ the exchange
ExchangeFill(oid, s) ==
    /\ exch[oid].status = "LIVE"
    /\ Len(exch[oid].trades) < Len(TradeCents)
    /\ orders[oid].status # "NONE"
    /\ SumSize(exch[oid].trades) + s <= orders[oid].size
    /\ exch' = [exch EXCEPT
                  ![oid].trades = Append(@, <<s, TradeCents[Len(@) + 1]>>),
                  ![oid].status =
                      IF SumSize(exch[oid].trades) + s = orders[oid].size
                      THEN "MATCHED" ELSE "LIVE"]
    /\ UNCHANGED <<has_auth, lockVars, strategyVars, pollerVars, cancel_returned, safetyVars, trackerVars, nextOid, portfolioVars, autoVars,
                   historyVars>>

ExchangeCancel(oid) ==
    /\ exch[oid].status = "LIVE"
    /\ exch' = [exch EXCEPT ![oid].status = "CANCELLED"]
    /\ UNCHANGED <<has_auth, lockVars, strategyVars, pollerVars, cancel_returned, safetyVars, trackerVars, nextOid, portfolioVars, autoVars,
                   historyVars>>

\* ------------------------------------ OrderTracker._check_all_orders
\* The poll worker takes its snapshot of the non-terminal orders.
PollBegin ==
    /\ pollQ = <<>>
    /\ pollQ' = IF has_auth THEN ActiveFrom(orders, 1) ELSE <<>>
    /\ pollQ' # <<>>
    /\ UNCHANGED <<has_auth, lockVars, strategyVars, pollerVars, cancel_returned, safetyVars, orders, pending, exchangeVars, portfolioVars,
                   autoVars, historyVars>>

\* ------------------------------- OrderTracker._check_order, stale path
\* Taken when is_stale (now - created_at > stale_after) reads true; the
\* order is terminal afterwards, so the single poll worker reads is_stale
\* of one order as true at most once and the order's age needs no variable.
\* cancel_reply: "ok" (cancelled = True), "refused" (success False),
\* "raise" (exception).
CheckOrderStale(cancel_reply) ==
    /\ pollQ # <<>>
    /\ LET oid    == Head(pollQ)
           order  == orders[oid]
           status == IF cancel_reply = "ok" THEN "CANCELLED" ELSE "EXPIRED"
       IN  /\ orders' = [orders EXCEPT ![oid].status = status]
           /\ pending' = update_pending_order(pending, oid, status,
                                              order.filled_size,
                                              order.avg_fill_price)
           /\ exch' = IF cancel_reply = "ok" /\ exch[oid].status = "LIVE"
                      THEN [exch EXCEPT ![oid].status = "CANCELLED"]
                      ELSE exch
           /\ cancelCalls' = [cancelCalls EXCEPT ![oid] = @ + 1]
    /\ pollQ' = Tail(pollQ)
    /\ UNCHANGED <<has_auth, lockVars, strategyVars, pollerVars, cancel_returned, safetyVars, nextOid, portfolioVars, autoVars, fillCalls,
                   buyResults>>

\* the error path giving the order up: status EXPIRED in memory
CheckOrderErrorGivesUp ==
    /\ pollQ # <<>>
    /\ orders' = [orders EXCEPT ![Head(pollQ)].status = "EXPIRED"]
    /\ pollQ' = Tail(pollQ)
    /\ UNCHANGED <<has_auth, lockVars, strategyVars, pollerVars, cancel_returned, safetyVars, pending, exchangeVars, portfolioVars,
                   autoVars, historyVars>>

\* ------------------- OrderTracker._check_order, get_order raised / None
CheckOrderError ==
    /\ pollQ # <<>>
    /\ pollQ' = Tail(pollQ)
    /\ UNCHANGED <<has_auth, lockVars, strategyVars, pollerVars, cancel_returned, safetyVars, orders, pending, exchangeVars, portfolioVars,
                   autoVars, historyVars>>

\* ------------------------------ OrderTracker._check_order, a response
CheckOrder(api) ==
    /\ LET oid      == Head(pollQ)
           order    == orders[oid]
           size_matched == ApiSizeMatched(api)
           fill_price   == ApiFillPrice(api, order)
           new_fill == size_matched - order.filled_size
           order1   == AfterFill(order, api)
           status   == NewStatus(api.status, order1)
       IN  /\ IF IsNewFill(new_fill)
              THEN /\ SetPortfolio(on_order_fill(PortfolioState, oid, order1,
                                                 new_fill, fill_price))
                   /\ fillCalls' = [fillCalls EXCEPT ![oid] = Append(@,
                          [size |-> new_fill, price |-> fill_price,
                           full |-> api.full])]
              ELSE UNCHANGED <<portfolioVars, fillCalls>>
           /\ orders' = [orders EXCEPT ![oid] = [order1 EXCEPT !.status = status]]
           /\ pending' = update_pending_order(pending, oid, status,
                                              order1.filled_size,
                                              order1.avg_fill_price)
           /\ cancelCalls' = IF status = "CANCELLED"
                             THEN [cancelCalls EXCEPT ![oid] = @ + 1]
                             ELSE cancelCalls
    /\ pollQ' = Tail(pollQ)
    /\ UNCHANGED <<has_auth, lockVars, strategyVars, pollerVars, cancel_returned, safetyVars, exchangeVars, autoVars, buyResults>>

\* ------------------------------------- OrderTracker.cancel_tracking
CancelTracking(oid) ==
    /\ orders' = IF orders[oid].status # "NONE"
                 THEN [orders EXCEPT ![oid].status = "CANCELLED"]
                 ELSE orders
    /\ pending' = update_pending_order(pending, oid, "CANCELLED", 0, RZero)
    /\ UNCHANGED <<has_auth, lockVars, strategyVars, pollerVars, cancel_returned, safetyVars, pollQ, exchangeVars, portfolioVars, autoVars,
                   historyVars>>

\* ========================================================= OrderManager
\* Python truthiness of an optional price: None and 0.0 are false
Truthy(x) == x # None /\ x[1] # 0

\* the AutoOrder built by set_take_profit / set_stop_loss / set_trailing_stop
NewAuto(token_id, order_type, size, trigger_price, trailing_percent, highest_price) ==
    [token_id |-> token_id, order_type |-> order_type,
     side |-> SideOf(token_id), size |-> size,
     trigger_price |-> trigger_price, trailing_percent |-> trailing_percent,
     highest_price |-> highest_price, state |-> "ACTIVE",
     linked_order_id |-> 0]

\* An automated-order state is [orders, counter]; _generate_order_id
\* increments the counter and the new order is stored under the new id.
\* OrderManager.set_take_profit
set_take_profit(A, token_id, price, size) ==
    [orders  |-> [A.orders EXCEPT ![A.counter + 1] =
                    NewAuto(token_id, "TAKE_PROFIT", size, price, None, RZero)],
     counter |-> A.counter + 1]

\* OrderManager.set_stop_loss
set_stop_loss(A, token_id, price, size) ==
    [orders  |-> [A.orders EXCEPT ![A.counter + 1] =
                    NewAuto(token_id, "STOP_LOSS", size, price, None, RZero)],
     counter |-> A.counter + 1]

\* OrderManager.set_trailing_stop :
\* stop_price = current_price * (1 - trail_percent)
set_trailing_stop(A, token_id, trail_percent, size, current_price) ==
    [orders  |-> [A.orders EXCEPT ![A.counter + 1] =
                    NewAuto(token_id, "TRAILING_STOP", size,
                            RMul(current_price, RSub(RInt(1), trail_percent)),
                            trail_percent, current_price)],
     counter |-> A.counter + 1]

\* OrderManager.set_oco : both orders, linked to each other
set_oco(A, token_id, size, take_profit_price, stop_loss_price) ==
    LET A1 == set_take_profit(A, token_id, take_profit_price, size)
        tp_id == A1.counter
        A2 == set_stop_loss(A1, token_id, stop_loss_price, size)
        sl_id == A2.counter
    IN  [A2 EXCEPT !.orders = [@ EXCEPT ![tp_id].linked_order_id = sl_id,
                                        ![sl_id].linked_order_id = tp_id]]

\* OrderManager.buy_with_tp_sl after a successful buy: the exit orders
tp_sl_orders(A, token_id, size, entry_price, take_profit, stop_loss, trailing_stop_percent) ==
    LET A1 == IF Truthy(take_profit)
              THEN set_take_profit(A, token_id, take_profit, size) ELSE A
        A2 == IF Truthy(stop_loss)
              THEN set_stop_loss(A1, token_id, stop_loss, size) ELSE A1
        A3 == IF Truthy(trailing_stop_percent)
              THEN set_trailing_stop(A2, token_id, trailing_stop_percent, size,
                                     entry_price)
              ELSE A2
    IN  A3

\* number of AutoOrders buy_with_tp_sl creates
ExitCount(take_profit, stop_loss, trailing_stop_percent) ==
    (IF Truthy(take_profit) THEN 1 ELSE 0) + (IF Truthy(stop_loss) THEN 1 ELSE 0)
    + (IF Truthy(trailing_stop_percent) THEN 1 ELSE 0)

\* buy_with_tp_sl's result: the ids of the exit orders it made, 0 for None
result_ids(counter, take_profit, stop_loss, trailing_stop_percent) ==
    LET tp == IF Truthy(take_profit) THEN 1 ELSE 0
        sl == IF Truthy(stop_loss) THEN 1 ELSE 0
        ts == IF Truthy(trailing_stop_percent) THEN 1 ELSE 0
    IN  [take_profit_id   |-> IF tp = 1 THEN counter + 1 ELSE 0,
         stop_loss_id     |-> IF sl = 1 THEN counter + tp + 1 ELSE 0,
         trailing_stop_id |-> IF ts = 1 THEN counter + tp + sl + 1 ELSE 0]

AutoState == [orders |-> autoOrders, counter |-> order_counter]

SetAuto(A) ==
    /\ autoOrders' = A.orders
    /\ order_counter' = A.counter

\* OrderManager.cancel_order : the order's new state
cancel_order(order) ==
    IF order.state \in {"NONE", "EXECUTED", "CANCELLED"} THEN order
    ELSE [order EXCEPT !.state = "CANCELLED"]

\* OrderManager.cancel_all_orders ; token_id "" stands for None
cancel_all_orders(os, token_id) ==
    [a \in AutoIds |->
        IF os[a].state = "ACTIVE" /\ (token_id = "" \/ os[a].token_id = token_id)
        THEN [os[a] EXCEPT !.state = "CANCELLED"]
        ELSE os[a]]

\* _check_order with strict comparisons
check_triggered_strict(order, current_price) ==
    /\ order.state = "ACTIVE"
    /\ \/ order.order_type = "TAKE_PROFIT"
          /\ RLt(order.trigger_price, current_price)
       \/ order.order_type = "STOP_LOSS"
          /\ RLt(current_price, order.trigger_price)
       \/ order.order_type = "TRAILING_STOP"
          /\ RLt(current_price, order.trigger_price)

\* OrderManager._check_order : TRUE when the order triggers at current_price
check_triggered(order, current_price) ==
    /\ order.state = "ACTIVE"
    /\ \/ order.order_type = "TAKE_PROFIT"
          /\ RLe(order.trigger_price, current_price)
       \/ order.order_type = "STOP_LOSS"
          /\ RLe(current_price, order.trigger_price)
       \/ order.order_type = "TRAILING_STOP"
          /\ LET new_stop == RMul(current_price,
                                  RSub(RInt(1), order.trailing_percent))
                 trig == IF RLt(order.highest_price, current_price)
                            /\ RLt(order.trigger_price, new_stop)
                         THEN new_stop ELSE order.trigger_price
             IN  RLe(current_price, trig)

\* a trailing stop that follows the price in both directions
check_update_follow(order, current_price) ==
    IF order.state = "ACTIVE" /\ order.order_type = "TRAILING_STOP"
    THEN [order EXCEPT !.highest_price = current_price,
                       !.trigger_price =
                           RMul(current_price,
                                RSub(RInt(1), order.trailing_percent))]
    ELSE order

\* OrderManager._check_order : the trailing stop's ratchet
check_update(order, current_price) ==
    IF order.state = "ACTIVE" /\ order.order_type = "TRAILING_STOP"
       /\ RLt(order.highest_price, current_price)
    THEN LET new_stop == RMul(current_price,
                              RSub(RInt(1), order.trailing_percent))
         IN  [order EXCEPT !.highest_price = current_price,
                           !.trigger_price =
                               IF RLt(order.trigger_price, new_stop)
                               THEN new_stop ELSE @]
    ELSE order

\* _execute_order leaving the linked order alone
execute_result_unlinked(os, id, success) ==
    [os EXCEPT ![id].state = IF success THEN "EXECUTED" ELSE "FAILED"]

\* OrderManager._execute_order, after market_sell returned
execute_result(os, id, success) ==
    LET linked == os[id].linked_order_id
    IN  IF success
        THEN [a \in AutoIds |->
                IF a = id THEN [os[a] EXCEPT !.state = "EXECUTED"]
                ELSE IF a = linked /\ os[a].state # "NONE"
                     THEN [os[a] EXCEPT !.state = "CANCELLED"]
                     ELSE os[a]]
        ELSE [os EXCEPT ![id].state = "FAILED"]

\* OrderManager.get_active_orders, in dict order
RECURSIVE ActiveAutoFrom(_, _)
ActiveAutoFrom(os, i) ==
    IF i > MaxAuto THEN <<>>
    ELSE IF os[i].state = "ACTIVE" THEN <<i>> \o ActiveAutoFrom(os, i + 1)
         ELSE ActiveAutoFrom(os, i + 1)

RECURSIVE OnToken(_, _, _)
OnToken(os, ids, token_id) ==
    IF ids = <<>> THEN <<>>
    ELSE IF os[Head(ids)].token_id = token_id
         THEN <<Head(ids)>> \o OnToken(os, Tail(ids), token_id)
         ELSE OnToken(os, Tail(ids), token_id)

\* ---------------------------------------- OrderManager.buy_with_tp_sl
\* x = <<take_profit, stop_loss, trailing_stop_percent>>
BuyWithTpSlCall(token_id, size, price, accept, x) ==
    /\ nextOid < MaxOrders
    /\ order_counter + ExitCount(x[1], x[2], x[3]) <= MaxAuto
    /\ IF BuyAccepted(size, price, accept)
       THEN LET oid == nextOid + 1
                T == track_order([orders |-> orders, pending |-> pending], oid,
                                 token_id, SideOf(token_id), "BUY", size, price)
                A == tp_sl_orders(AutoState, token_id, size, price,
                                  x[1], x[2], x[3])
            IN  /\ nextOid' = oid
                /\ exch' = [exch EXCEPT ![oid] =
                              [status |-> "LIVE", trades |-> <<>>, price |-> price]]
                /\ orders' = T.orders
                /\ pending' = T.pending
                /\ SetAuto(A)
                /\ buyResults' = buyResults \cup
                     {[buy_result |-> oid] @@
                      result_ids(order_counter, x[1], x[2], x[3])}
                /\ omPositions' =
                     IF omPositions[token_id].present
                     THEN [omPositions EXCEPT
                             ![token_id].take_profit_price = x[1],
                             ![token_id].stop_loss_price = x[2],
                             ![token_id].trailing_stop_percent = x[3]]
                     ELSE omPositions
       ELSE UNCHANGED <<orders, pending, exch, nextOid, autoOrders,
                        order_counter, omPositions, buyResults>>

BuyWithTpSl(token_id, size, price, accept, x) ==
    /\ TokenInUse(token_id)
    /\ BuyWithTpSlCall(token_id, size, price, accept, x)
    /\ UNCHANGED <<has_auth, lockVars, strategyVars, pollerVars, cancel_returned, safetyVars, pollQ, positions, realized_pnl,
                   trades, dbPositions, mon, sellCalls, evaluated, fillCalls,
                   cancelCalls>>

\* ------------------------- the API that places and cancels AutoOrders
AutoUnchanged ==
    UNCHANGED <<has_auth, lockVars, strategyVars, pollerVars, cancel_returned, safetyVars, trackerVars, exchangeVars,
                portfolioVars, mon, sellCalls, evaluated, historyVars>>

SetTakeProfit(token_id, price, size) ==
    /\ TokenInUse(token_id)
    /\ order_counter < MaxAuto
    /\ SetAuto(set_take_profit(AutoState, token_id, price, size))
    /\ AutoUnchanged

SetStopLoss(token_id, price, size) ==
    /\ TokenInUse(token_id)
    /\ order_counter < MaxAuto
    /\ SetAuto(set_stop_loss(AutoState, token_id, price, size))
    /\ AutoUnchanged

SetTrailingStop(token_id, trail_percent, size, current_price) ==
    /\ TokenInUse(token_id)
    /\ order_counter < MaxAuto
    /\ SetAuto(set_trailing_stop(AutoState, token_id, trail_percent, size,
                                 current_price))
    /\ AutoUnchanged

SetOco(token_id, size, take_profit_price, stop_loss_price) ==
    /\ TokenInUse(token_id)
    /\ order_counter + 2 <= MaxAuto
    /\ SetAuto(set_oco(AutoState, token_id, size, take_profit_price,
                       stop_loss_price))
    /\ AutoUnchanged

\* the order is known and neither EXECUTED nor CANCELLED: True is returned
cancel_order_returns(order) == order.state \notin {"NONE", "EXECUTED", "CANCELLED"}

CancelOrder(id) ==
    /\ autoOrders' = [autoOrders EXCEPT ![id] = cancel_order(@)]
    /\ cancel_returned' = IF cancel_order_returns(autoOrders[id])
                          THEN cancel_returned \cup {id} ELSE cancel_returned
    /\ UNCHANGED order_counter
    /\ UNCHANGED <<has_auth, lockVars, strategyVars, pollerVars, safetyVars, trackerVars, exchangeVars,
                   portfolioVars, mon, sellCalls, evaluated, historyVars>>

CancelAllOrders(token_id) ==
    /\ autoOrders' = cancel_all_orders(autoOrders, token_id)
    /\ UNCHANGED order_counter
    /\ AutoUnchanged

\* ------------------------------------------ OrderManager._monitor_loop
MonitorUnchanged ==
    UNCHANGED <<has_auth, lockVars, strategyVars, pollerVars, cancel_returned, safetyVars, trackerVars, exchangeVars, portfolioVars,
                order_counter, historyVars>>

\* the tick is over once no order and no token is left
MonNext(m) ==
    IF m.todo = <<>> /\ m.tokens = {} /\ m.exec = 0 THEN MonIdle ELSE m

\* a tick begins: the snapshot of the active orders and their tokens
MonitorBegin ==
    /\ ~mon.busy
    /\ LET active == ActiveAutoFrom(autoOrders, 1)
       IN  /\ active # <<>>
           /\ mon' = [MonIdle EXCEPT
                        !.busy = TRUE, !.active = active,
                        !.tokens = {autoOrders[active[i]].token_id :
                                      i \in 1..Len(active)}]
    /\ UNCHANGED <<autoOrders, sellCalls, evaluated>>
    /\ MonitorUnchanged

\* the next token of the set and its price; price None: no midpoint
MonitorFetch(token_id, price) ==
    /\ mon.busy /\ mon.todo = <<>> /\ mon.exec = 0
    /\ token_id \in mon.tokens
    /\ mon' = MonNext([mon EXCEPT
                  !.tokens = @ \ {token_id},
                  !.price = price,
                  !.todo = IF price = None THEN <<>>
                           ELSE OnToken(autoOrders, mon.active, token_id)])
    /\ UNCHANGED <<autoOrders, sellCalls, evaluated>>
    /\ MonitorUnchanged

\* _check_order on the next order of the token and, when it triggers, the
\* start of _execute_order: state TRIGGERED and the call of market_sell
MonitorCheck ==
    /\ mon.todo # <<>> /\ mon.exec = 0
    /\ LET id     == Head(mon.todo)
           order  == autoOrders[id]
           order1 == check_update(order, mon.price)
       IN  IF check_triggered(order, mon.price)
           THEN /\ autoOrders' = [autoOrders EXCEPT
                                    ![id] = [order1 EXCEPT !.state = "TRIGGERED"]]
                /\ sellCalls' = [sellCalls EXCEPT ![id] = @ + 1]
                /\ mon' = [mon EXCEPT !.todo = Tail(@), !.exec = id]
           ELSE /\ autoOrders' = [autoOrders EXCEPT ![id] = order1]
                /\ UNCHANGED sellCalls
                /\ mon' = MonNext([mon EXCEPT !.todo = Tail(@)])
    /\ evaluated' = IF scan.busy THEN evaluated \cup {Head(mon.todo)}
                    ELSE evaluated
    /\ MonitorUnchanged

\* Trader.market_sell returns and _execute_order finishes; the sell succeeds
\* when the trader is ready and the exchange takes it (sell_ok: the book has
\* a bid of 50 and post_order answers with an order id). The order is on
\* the exchange; _execute_order does not hand it to the OrderTracker.
MonitorSellResult(sell_ok) ==
    /\ mon.exec # 0
    /\ LET success == has_auth /\ sell_ok
       IN  /\ success => nextOid < MaxOrders
           /\ autoOrders' = execute_result(autoOrders, mon.exec, success)
           /\ IF success
              THEN /\ nextOid' = nextOid + 1
                   /\ exch' = [exch EXCEPT ![nextOid + 1] =
                                 [status |-> "LIVE", trades |-> <<>>,
                                  price |-> market_sell_price(RInt(50))]]
              ELSE UNCHANGED exchangeVars
    /\ mon' = MonNext([mon EXCEPT !.exec = 0])
    /\ UNCHANGED <<sellCalls, evaluated, order_counter>>
    /\ UNCHANGED <<has_auth, lockVars, strategyVars, pollerVars, cancel_returned, safetyVars, trackerVars, portfolioVars,
                   historyVars>>

MidPrices == {RInt(c) : c \in MidCents} \cup {None}

NextAuto ==
    \/ \E t \in Tokens, x \in TpSlInputs, acc \in BOOLEAN :
          BuyWithTpSl(t, 4, RInt(50), acc, x)
    \/ \E t \in Tokens : SetTakeProfit(t, RInt(70), 4)
    \/ \E t \in Tokens : SetStopLoss(t, RInt(30), 4)
    \/ \E t \in Tokens : SetTrailingStop(t, Rat(1, 10), 4, RInt(50))
    \/ \E t \in Tokens, i \in OcoInputs : SetOco(t, 4, RInt(i[1]), RInt(i[2]))
    \/ \E a \in AutoIds : CancelOrder(a)
    \/ \E t \in Tokens \cup {""} : CancelAllOrders(t)
    \/ MonitorBegin
    \/ \E t \in Tokens, p \in MidPrices : MonitorFetch(t, p)
    \/ MonitorCheck
    \/ \E ok \in BOOLEAN : MonitorSellResult(ok)

SpecAuto == Init /\ [][NextAuto]_vars

\* ---------------------------------- OrderTracker.track_order, repeated
\* track_order called again for an id that is already tracked, with the
\* same arguments.  The poll worker's snapshot holds the old object, so the
\* call is taken outside the cycles that hold the order.
InPollQ(oid) == \E i \in 1..Len(pollQ) : pollQ[i] = oid

Retrack(oid) ==
    /\ orders[oid].status # "NONE"
    /\ orders[oid].filled_size > 0
    /\ ~InPollQ(oid)
    /\ Len(fillCalls[oid]) < MaxDeliveries
    /\ LET o == orders[oid]
           T == track_order([orders |-> orders, pending |-> pending], oid,
                            o.token_id, o.side, o.order_side, o.size,
                            o.limit_price)
       IN  /\ orders' = T.orders
           /\ pending' = T.pending
    /\ UNCHANGED <<has_auth, lockVars, strategyVars, pollerVars, cancel_returned, safetyVars, pollQ, exchangeVars, portfolioVars, autoVars,
                   historyVars>>

\* ------------------------------------------------------ specifications
NextTracker ==
    \/ \E t \in Tokens, i \in BuyInputs : Buy(t, i[1], RInt(i[2]), i[3])
    \/ \E t \in Tokens : BuyWithTpSl(t, 4, RInt(50), TRUE, <<RInt(70), RInt(30), None>>)
    \/ \E t \in Tokens, i \in SellInputs : MarketSell(t, i[1], i[2], i[3])
    \/ \E o \in OrderIds, s \in FillSizes : ExchangeFill(o, s)
    \/ \E o \in OrderIds : ExchangeCancel(o)
    \/ PollBegin
    \/ \E c \in {"ok", "refused", "raise"} : CheckOrderStale(c)
    \/ CheckOrderError
    \/ pollQ # <<>> /\ \E api \in Responses(Head(pollQ)) : CheckOrder(api)
    \/ \E o \in OrderIds : CancelTracking(o)

\* orders placed through OrderManager, the exchange, the poll worker
SpecTracker == Init /\ [][NextTracker]_vars

NextRetrack ==
    \/ \E t \in Tokens, i \in BuyInputs : Buy(t, i[1], RInt(i[2]), i[3])
    \/ \E o \in OrderIds, s \in FillSizes : ExchangeFill(o, s)
    \/ \E o \in OrderIds : ExchangeCancel(o)
    \/ PollBegin
    \/ \E c \in {"ok", "refused", "raise"} : CheckOrderStale(c)
    \/ CheckOrderError
    \/ pollQ # <<>> /\ \E api \in Responses(Head(pollQ)) : CheckOrder(api)
    \/ \E o \in OrderIds : CancelTracking(o)
    \/ \E o \in OrderIds : Retrack(o)

\* BUY orders only, with track_order also called again for a tracked id
\* that has fills
SpecRetrack == Init /\ [][NextRetrack]_vars

\* =========================================================== AutoTrader
\* MAX_DAILY_LOSS_USD as configured for the run (dollars; 0 disables).
\* MAX_DRAWDOWN_PCT is left at its default 0, which disables that breaker.
max_daily_loss_usd == Rat(1, 10)

\* the one market the scanner reports, its two prices (cents)
price_yes == RInt(50)
price_no  == RInt(50)
\* find_opportunities: at most one opportunity per market
ScanInputs == {<<>>, <<"YES">>, <<"NO">>, <<"ARB">>}
\* get_order_book answers: nothing (or an error), one side empty, crossed,
\* a tight book and a wide one
BookInputs ==
    {NoBook,
     [bids |-> {}, asks |-> {51}, present |-> TRUE],
     [bids |-> {51}, asks |-> {49}, present |-> TRUE],
     [bids |-> {50}, asks |-> {50}, present |-> TRUE],
     [bids |-> {49}, asks |-> {51}, present |-> TRUE]}
BetFills == {10}     \* sizes of single exchange trades against a bet's order

RMin(x, y) == IF RLe(x, y) THEN x ELSE y
RDiv(x, y) == Rat(x[1] * y[2], x[2] * y[1])
Whole(x)   == x[1] \div x[2]

\* AutoTrader._get_orderbook_spread_bps; None when there is no usable book
get_orderbook_spread_bps(book) ==
    IF ~book.present \/ book.bids = {} \/ book.asks = {} THEN None
    ELSE LET bid == CHOOSE b \in book.bids : \A c \in book.bids : c <= b
             ask == CHOOSE a \in book.asks : \A c \in book.asks : a <= c
         IN  IF bid <= 0 \/ ask <= 0 \/ ask < bid THEN None
             ELSE Rat((ask - bid) * 10000 * 2, bid + ask)

\* run_once, "Spread guard": TRUE when the opportunity is skipped
spread_guard_skips(spread_bps) ==
    spread_bps # None /\ RLt(RInt(max_spread_bps), spread_bps)

\* sum(b.size * b.entry_price for b in active_bets), entry_price in dollars
RECURSIVE OpenValue(_)
OpenValue(bets) ==
    IF bets = {} THEN RZero
    ELSE LET b == CHOOSE x \in bets : TRUE
         IN  RAdd(RDivInt(RMul(b.size, b.entry_price), 100),
                  OpenValue(bets \ {b}))

\* AutoTrader.calculate_bet_size (dollars)
calculate_bet_size(bets) ==
    LET reserve   == Rat(bankroll * reserve_percent, 100)
        available == RSub(RSub(RInt(bankroll), reserve), OpenValue(bets))
        bet_size  == RMin(RInt(max_bet_size), RDivInt(available, 4))
    IN  RMax(bet_size, RZero)

\* AutoTrader.can_place_bet
can_place_bet(bets) ==
    /\ Cardinality(bets) < max_open_positions
    /\ ~RLt(calculate_bet_size(bets), RInt(5))

\* place_auto_bet: entry price (price_no for every side but "YES"), TP, SL
entry_price_of(side) == IF side = "YES" THEN price_yes ELSE price_no
tp_price_of(entry_price) ==
    RMin(RMul(entry_price, Rat(100 + take_profit_percent, 100)), RInt(99))
sl_price_of(entry_price) ==
    RMax(RMul(entry_price, Rat(100 - stop_loss_percent, 100)), RInt(1))
\* shares bought for a dollar amount at a price in cents
shares_for(dollars, price) == Whole(RDiv(RScale(100, dollars), price))

\* place_auto_bet, "Track the bet"
AutoBet(side, bet_size) ==
    [side |-> side, size |-> bet_size, entry_price |-> entry_price_of(side)]

\* _circuit_breaker_check, daily loss: the day start the check works with
day_start_at_check ==
    IF pnl_day # today THEN bot_realized_pnl ELSE realized_pnl_day_start

\* _circuit_breaker_check: TRUE when a breaker reason is returned
circuit_breaker_check ==
    LET daily_realized == RSub(bot_realized_pnl, day_start_at_check)
        limit == RScale(100, max_daily_loss_usd)
    IN  /\ max_daily_loss_usd # RZero
        /\ RLe(daily_realized, RSub(RZero, limit))

\* run_once never clearing the switch replaced by following the breaker
kill_switch_follows(kill, breaker_reason) == breaker_reason

\* run_once, "Live-safety: circuit breakers": the kill switch afterwards
kill_switch_after(kill, breaker_reason) == kill \/ breaker_reason

ScanUnchanged ==
    UNCHANGED <<has_auth, lockVars, strategyVars, pollerVars, cancel_returned, pollQ, portfolioVars, mon, sellCalls, fillCalls,
                cancelCalls, today, bot_realized_pnl>>

\* run_once up to the loop over the opportunities
ScanBegin(opportunities) ==
    /\ ~scan.busy
    /\ opportunities = <<"NO">> => TokenInUse("tokN")
    /\ pnl_day' = today
    /\ realized_pnl_day_start' = day_start_at_check
    /\ kill_switch' = kill_switch_after(kill_switch, circuit_breaker_check)
    /\ scan' = [ScanIdle EXCEPT !.busy = TRUE, !.todo = opportunities,
                                !.tripped = scan.tripped \/ circuit_breaker_check]
    /\ evaluated' = {}
    /\ UNCHANGED <<trackerVars, exchangeVars, autoOrders, order_counter,
                   buyResults, active_bets>>
    /\ ScanUnchanged

\* the loop is left: no opportunity remains or two bets were placed
ScanAfter(todo, bets_placed) ==
    IF bets_placed >= 2 THEN <<>> ELSE Tail(todo)

\* one turn of the loop of run_once for the next opportunity; for "ARB" the
\* turn ends after the YES leg, whose result scan.arb keeps
ScanEntry(book, accept) ==
    /\ scan.busy /\ scan.todo # <<>> /\ scan.arb = ""
    /\ LET side == Head(scan.todo)
           token_id == IF side = "YES" THEN "tokY" ELSE "tokN"
           bet_size == calculate_bet_size(active_bets)
           entry_price == entry_price_of(side)
           skip(todo) ==
               /\ scan' = [scan EXCEPT !.todo = todo]
               /\ UNCHANGED <<trackerVars, exchangeVars, autoOrders,
                              order_counter, buyResults, omPositions,
                              active_bets>>
       IN  IF ~can_place_bet(active_bets) THEN skip(<<>>)
           ELSE IF active_bets # {} THEN skip(Tail(scan.todo))
           ELSE IF kill_switch THEN skip(Tail(scan.todo))
           ELSE IF spread_guard_skips(get_orderbook_spread_bps(book))
                THEN /\ scan' = [scan EXCEPT !.todo = Tail(@), !.book = book]
                     /\ UNCHANGED <<trackerVars, exchangeVars, autoOrders,
                                    order_counter, buyResults, omPositions,
                                    active_bets>>
           ELSE IF side = "ARB"
                THEN /\ BuyCall("tokY", shares_for(RDivInt(bet_size, 2), price_yes),
                                price_yes, accept)
                     /\ scan' = [scan EXCEPT !.book = book, !.arb =
                                   IF BuyAccepted(shares_for(RDivInt(bet_size, 2),
                                                             price_yes),
                                                  price_yes, accept)
                                   THEN "ok" ELSE "failed"]
                     /\ UNCHANGED <<autoOrders, order_counter, buyResults,
                                    omPositions, active_bets, pollQ>>
                ELSE LET size == shares_for(bet_size, entry_price)
                         ok   == BuyAccepted(size, entry_price, accept)
                         n    == scan.bets_placed + (IF ok THEN 1 ELSE 0)
                     IN  /\ BuyWithTpSlCall(token_id, size, entry_price, accept,
                                            <<tp_price_of(entry_price),
                                              sl_price_of(entry_price), None>>)
                         /\ active_bets' = IF ok
                                           THEN active_bets \cup {AutoBet(side, bet_size)}
                                           ELSE active_bets
                         /\ scan' = [scan EXCEPT !.bets_placed = n,
                                                 !.book = book,
                                                 !.todo = ScanAfter(@, n)]
                         /\ UNCHANGED pollQ
    /\ UNCHANGED <<has_auth, lockVars, strategyVars, pollerVars, cancel_returned, positions, realized_pnl, trades, dbPositions, mon,
                   sellCalls, evaluated, fillCalls, cancelCalls, kill_switch,
                   pnl_day, today, realized_pnl_day_start, bot_realized_pnl>>

\* place_auto_bet, the NO leg of an arbitrage and the end of that turn
ScanArbNo(accept) ==
    /\ scan.busy /\ scan.arb # ""
    /\ LET bet_size == calculate_bet_size(active_bets)
           size == shares_for(RDivInt(bet_size, 2), price_no)
           ok   == scan.arb = "ok" /\ BuyAccepted(size, price_no, accept)
           n    == scan.bets_placed + (IF ok THEN 1 ELSE 0)
       IN  /\ BuyCall("tokN", size, price_no, accept)
           /\ active_bets' = IF ok THEN active_bets \cup {AutoBet("ARB", bet_size)}
                             ELSE active_bets
           /\ scan' = [scan EXCEPT !.arb = "", !.bets_placed = n,
                                   !.todo = ScanAfter(@, n)]
    /\ UNCHANGED <<has_auth, lockVars, strategyVars, pollerVars, cancel_returned, pollQ, portfolioVars, autoVars, historyVars,
                   kill_switch, pnl_day, today, realized_pnl_day_start,
                   bot_realized_pnl>>

\* check_positions at the end of run_once: the bets past max_hold_hours are
\* closed in the books of the AutoTrader (no order is placed for them)
ScanEnd(expired) ==
    /\ scan.busy /\ scan.todo = <<>> /\ scan.arb = ""
    /\ expired \subseteq active_bets
    /\ active_bets' = active_bets \ expired
    /\ scan' = [ScanIdle EXCEPT !.tripped = scan.tripped]
    /\ UNCHANGED <<trackerVars, exchangeVars, autoOrders, order_counter,
                   evaluated, buyResults, kill_switch, pnl_day,
                   realized_pnl_day_start>>
    /\ ScanUnchanged

\* midnight passes
NewDay ==
    /\ today < MaxDay
    /\ today' = today + 1
    /\ UNCHANGED <<has_auth, lockVars, strategyVars, pollerVars, cancel_returned, trackerVars, exchangeVars, portfolioVars, autoVars,
                   historyVars, kill_switch, pnl_day, realized_pnl_day_start,
                   bot_realized_pnl, scan, active_bets>>

\* a process started on the Store an earlier run left: KILL_SWITCH as the
\* environment has it, the day key and the realized P&L of that run, which
\* both PortfolioManagers load
InitTrade ==
    /\ EmptyBooks
    /\ kill_switch \in BOOLEAN
    /\ pnl_day \in {0, 1}
    /\ realized_pnl \in {RZero, RInt(-10)}
    /\ bot_realized_pnl = realized_pnl
    /\ realized_pnl_day_start = RZero

NextTrade ==
    \/ \E opps \in ScanInputs : ScanBegin(opps)
    \/ \E b \in BookInputs, acc \in BOOLEAN : ScanEntry(b, acc)
    \/ \E acc \in BOOLEAN : ScanArbNo(acc)
    \/ \E e \in SUBSET active_bets : ScanEnd(e)
    \/ NewDay
    \/ \E t \in Tokens : Buy(t, 10, RInt(50), TRUE)
    \/ \E t \in Tokens : MarketSell(t, 10, {50}, TRUE)
    \/ \E o \in OrderIds, s \in BetFills : ExchangeFill(o, s)
    \/ PollBegin
    \/ pollQ # <<>> /\ \E api \in Responses(Head(pollQ)) : CheckOrder(api)

\* AutoTrader.run: the scan cycles, the poll worker run() starts, the
\* exchange, and orders placed by hand through the bot's OrderManager.
\* run() starts order_tracker only and run_once calls no monitor tick
\* (start_monitoring has no caller in auto_trader.py), so the steps of
\* _monitor_loop are not steps of this process.
SpecTrade == InitTrade /\ [][NextTrade]_vars

\* ------------------------------- PortfolioManager called directly
\* sizes and prices (cents) handed to add_position and close_position; a
\* close of 5 is larger than some holdings and smaller than others
AddInputs   == {<<2, 40>>, <<3, 60>>}
CloseInputs == {<<1, 50>>, <<5, 30>>}

PortfolioUnchanged ==
    UNCHANGED <<has_auth, lockVars, strategyVars, pollerVars, cancel_returned, trackerVars, exchangeVars, autoVars, historyVars,
                safetyVars>>

AddPosition(token_id, size, entry_price) ==
    /\ BagCardinality(trades) < MaxLedger
    /\ SetPortfolio(add_position(PortfolioState, token_id, SideOf(token_id),
                                 size, entry_price, 0))
    /\ PortfolioUnchanged

ClosePosition(token_id, size, exit_price) ==
    /\ BagCardinality(trades) < MaxLedger
    /\ SetPortfolio(close_position(PortfolioState, token_id, SideOf(token_id),
                                   size, exit_price, 0))
    /\ PortfolioUnchanged

NextPortfolio ==
    \/ \E t \in Tokens, i \in AddInputs : AddPosition(t, i[1], RInt(i[2]))
    \/ \E t \in Tokens, i \in CloseInputs : ClosePosition(t, i[1], RInt(i[2]))

\* any sequence of add_position and close_position calls on a Portfolio
SpecPortfolio == Init /\ [][NextPortfolio]_vars

\* ------------------------------------------- crash and reconstruction
\* _load_from_db reading every fill back as 0
load_from_db_unfilled(rows) ==
    [o \in OrderIds |->
        IF rows[o].status \in {"LIVE", "PARTIALLY_FILLED"}
        THEN [rows[o] EXCEPT !.filled_size = 0, !.avg_fill_price = RZero]
        ELSE NoOrder]

\* OrderTracker._load_from_db over Database.get_pending_orders(): the rows
\* with status LIVE or PARTIALLY_FILLED, field by field (a row has the
\* fields of a TrackedOrder)
load_from_db(rows) ==
    [o \in OrderIds |->
        IF rows[o].status \in {"LIVE", "PARTIALLY_FILLED"}
        THEN rows[o] ELSE NoOrder]

\* the process is gone and a new one is constructed on the same Store:
\* memory is rebuilt from the tables (pending_orders, positions, state),
\* what no table holds starts empty, and the poll worker starts over
Reconstructed ==
    /\ orders' = load_from_db(pending)
    /\ pollQ' = <<>>
    /\ omPositions' = [t \in Tokens |-> NoOmPos]
    /\ autoOrders' = [a \in AutoIds |-> NoAuto]
    /\ order_counter' = 0
    /\ mon' = MonIdle
    /\ UNCHANGED <<has_auth, lockVars, strategyVars, pollerVars, cancel_returned, pending, exchangeVars, sellCalls, evaluated,
                   cancelCalls, buyResults, safetyVars>>

\* a crash between two steps of the workers
Crash ==
    /\ \E o \in OrderIds : orders[o].status # "NONE"
    /\ Reconstructed
    /\ positions' = dbPositions
    /\ UNCHANGED <<dbPositions, realized_pnl, trades, fillCalls>>

\* a crash inside _check_order: the response was read and on_fill has
\* returned (the Portfolio wrote its tables), update_pending_order has not
\* run yet
CheckOrderCrash(api) ==
    /\ LET oid      == Head(pollQ)
           order    == orders[oid]
           size_matched == ApiSizeMatched(api)
           fill_price   == ApiFillPrice(api, order)
           new_fill == size_matched - order.filled_size
           order1   == AfterFill(order, api)
           S        == on_order_fill(PortfolioState, oid, order1, new_fill,
                                     fill_price)
       IN  /\ IsNewFill(new_fill)
           /\ Len(fillCalls[oid]) < MaxDeliveries
           /\ positions' = S.db_positions
           /\ dbPositions' = S.db_positions
           /\ realized_pnl' = S.realized_pnl
           /\ trades' = S.trades
           /\ fillCalls' = [fillCalls EXCEPT ![oid] = Append(@,
                  [size |-> new_fill, price |-> fill_price,
                   full |-> api.full])]
    /\ Reconstructed

NextCrash ==
    \/ Buy("tokY", 4, RInt(50), TRUE)
    \/ \E o \in OrderIds, s \in FillSizes : ExchangeFill(o, s)
    \/ PollBegin
    \/ CheckOrderStale("refused")
    \/ pollQ # <<>> /\ \E api \in Responses(Head(pollQ)) : CheckOrder(api)
    \/ pollQ # <<>> /\ \E api \in Responses(Head(pollQ)) : CheckOrderCrash(api)
    \/ Crash

\* BUY orders, the exchange, the poll worker, and crashes of the process
\* each followed by the construction of a new OrderTracker
SpecCrash == Init /\ [][NextCrash]_vars

\* ============================================================== locks
\* Every thread that talks to the exchange goes one of two ways: a critical
\* section of the tracker, clients.auth, RateLimitedClient._wait, the call;
\* or clients.read, RateLimitedClient._wait, the call.
LocksUnchanged ==
    UNCHANGED <<has_auth, trackerVars, exchangeVars, portfolioVars, autoVars,
                historyVars, safetyVars, strategyVars, pollerVars, cancel_returned>>

\* the pc after clients.auth returned self._auth_client: the caller goes on
\* to an API method when it got a client and gives up when it got None
after_auth(ready) == IF ready THEN "wait" ELSE "idle"

\* the thread leaves clients.auth with self._auth_client
ReturnAuth(t, ready) ==
    /\ thread_pc' = [thread_pc EXCEPT ![t] = after_auth(ready)]
    /\ thread_client' = [thread_client EXCEPT ![t] = IF ready THEN "auth" ELSE "none"]

\* OrderTracker._check_all_orders / track_order : with self._lock
TrackerLock(t) ==
    /\ thread_pc[t] = "idle"
    /\ lock_holder["OrderTracker._lock"] = "none"
    /\ lock_holder' = [lock_holder EXCEPT !["OrderTracker._lock"] = t]
    /\ thread_pc' = [thread_pc EXCEPT ![t] = "snapshot"]
    /\ UNCHANGED <<auth_initialized, auth_client, read_client, thread_client,
                   last_call_time, now>>
    /\ LocksUnchanged

\* leaving the with block, before clients.has_auth and _check_order
TrackerUnlock(t) ==
    /\ thread_pc[t] = "snapshot"
    /\ lock_holder' = [lock_holder EXCEPT !["OrderTracker._lock"] = "none"]
    /\ thread_pc' = [thread_pc EXCEPT ![t] = "auth"]
    /\ UNCHANGED <<auth_initialized, auth_client, read_client, thread_client,
                   last_call_time, now>>
    /\ LocksUnchanged

\* ClientManager.auth : if not config.has_credentials: return None
AuthNoCredentials(t) ==
    /\ thread_pc[t] = "auth"
    /\ ~has_auth
    /\ ReturnAuth(t, FALSE)
    /\ UNCHANGED <<lock_holder, auth_initialized, auth_client, read_client,
                   last_call_time, now>>
    /\ LocksUnchanged

\* ClientManager.auth : the unlocked test of _auth_initialized
AuthCheck(t) ==
    /\ thread_pc[t] = "auth"
    /\ IF auth_initialized
       THEN ReturnAuth(t, auth_client.ready)
       ELSE /\ thread_pc' = [thread_pc EXCEPT ![t] = "auth_blocked"]
            /\ UNCHANGED thread_client
    /\ UNCHANGED <<lock_holder, auth_initialized, auth_client, read_client,
                   last_call_time, now>>
    /\ LocksUnchanged

\* ClientManager.auth : with self._lock
AuthLock(t) ==
    /\ thread_pc[t] = "auth_blocked"
    /\ lock_holder["ClientManager._lock"] = "none"
    /\ lock_holder' = [lock_holder EXCEPT !["ClientManager._lock"] = t]
    /\ thread_pc' = [thread_pc EXCEPT ![t] = "auth_locked"]
    /\ UNCHANGED <<auth_initialized, auth_client, read_client, thread_client,
                   last_call_time, now>>
    /\ LocksUnchanged

\* auth without the second test inside the lock
AuthRecheckOmitted(t) ==
    /\ thread_pc[t] = "auth_locked"
    /\ thread_pc' = [thread_pc EXCEPT ![t] = "deriving"]
    /\ UNCHANGED <<lock_holder, auth_initialized, auth_client, read_client,
                   thread_client, last_call_time, now>>
    /\ LocksUnchanged

\* ClientManager.auth : the second test, inside the lock; when it fails
\* _init_auth_client starts client.create_or_derive_api_creds()
AuthRecheck(t) ==
    /\ thread_pc[t] = "auth_locked"
    /\ IF auth_initialized
       THEN /\ lock_holder' = [lock_holder EXCEPT !["ClientManager._lock"] = "none"]
            /\ ReturnAuth(t, auth_client.ready)
       ELSE /\ thread_pc' = [thread_pc EXCEPT ![t] = "deriving"]
            /\ UNCHANGED <<lock_holder, thread_client>>
    /\ UNCHANGED <<auth_initialized, auth_client, read_client, last_call_time, now>>
    /\ LocksUnchanged

\* _init_auth_client : create_or_derive_api_creds returned (the client is
\* kept) or raised (the error is kept); finally: _auth_initialized = True,
\* and the with block of auth ends. has_auth tells whether the derivation
\* succeeds.
AuthDerived(t) ==
    /\ thread_pc[t] = "deriving"
    /\ auth_initialized' = TRUE
    /\ auth_client' = [runs |-> auth_client.runs + 1, ready |-> has_auth,
                       error |-> ~has_auth]
    /\ lock_holder' = [lock_holder EXCEPT !["ClientManager._lock"] = "none"]
    /\ ReturnAuth(t, has_auth)
    /\ UNCHANGED <<read_client, last_call_time, now>>
    /\ LocksUnchanged

\* ClientManager.read : the unlocked test of _read_client
ReadCheck(t) ==
    /\ thread_pc[t] = "idle"
    /\ IF read_client
       THEN /\ thread_pc' = [thread_pc EXCEPT ![t] = "wait"]
            /\ thread_client' = [thread_client EXCEPT ![t] = "read"]
       ELSE /\ thread_pc' = [thread_pc EXCEPT ![t] = "read_blocked"]
            /\ UNCHANGED thread_client
    /\ UNCHANGED <<lock_holder, auth_initialized, auth_client, read_client,
                   last_call_time, now>>
    /\ LocksUnchanged

\* ClientManager.read : with self._lock
ReadLock(t) ==
    /\ thread_pc[t] = "read_blocked"
    /\ lock_holder["ClientManager._lock"] = "none"
    /\ lock_holder' = [lock_holder EXCEPT !["ClientManager._lock"] = t]
    /\ thread_pc' = [thread_pc EXCEPT ![t] = "read_locked"]
    /\ UNCHANGED <<auth_initialized, auth_client, read_client, thread_client,
                   last_call_time, now>>
    /\ LocksUnchanged

\* ClientManager.read : the second test, RateLimitedClient(ClobClient(host)),
\* the end of the with block, return self._read_client
ReadCreate(t) ==
    /\ thread_pc[t] = "read_locked"
    /\ read_client' = TRUE
    /\ lock_holder' = [lock_holder EXCEPT !["ClientManager._lock"] = "none"]
    /\ thread_pc' = [thread_pc EXCEPT ![t] = "wait"]
    /\ thread_client' = [thread_client EXCEPT ![t] = "read"]
    /\ UNCHANGED <<auth_initialized, auth_client, last_call_time, now>>
    /\ LocksUnchanged

\* RateLimitedClient._wait : with self._lock; time.sleep runs inside it
WaitLock(t) ==
    /\ thread_pc[t] = "wait"
    /\ lock_holder[limiter_lock(thread_client[t])] = "none"
    /\ lock_holder' = [lock_holder EXCEPT ![limiter_lock(thread_client[t])] = t]
    /\ thread_pc' = [thread_pc EXCEPT ![t] = "sleeping"]
    /\ UNCHANGED <<auth_initialized, auth_client, read_client, thread_client,
                   last_call_time, now>>
    /\ LocksUnchanged

\* _wait : min_interval has passed since this client's _last_call_time (at
\* once, or when the sleep is over); _last_call_time = time.monotonic();
\* rate_limited_call goes on to attr(*args, **kwargs)
WaitUnlock(t) ==
    /\ thread_pc[t] = "sleeping"
    /\ now - last_call_time[thread_client[t]] >= MinInterval
    /\ last_call_time' = [last_call_time EXCEPT ![thread_client[t]] = now]
    /\ lock_holder' = [lock_holder EXCEPT ![limiter_lock(thread_client[t])] = "none"]
    /\ thread_pc' = [thread_pc EXCEPT ![t] = "calling"]
    /\ UNCHANGED <<auth_initialized, auth_client, read_client, thread_client, now>>
    /\ LocksUnchanged

\* the API method returned
CallReturn(t) ==
    /\ thread_pc[t] = "calling"
    /\ thread_pc' = [thread_pc EXCEPT ![t] = "idle"]
    /\ thread_client' = [thread_client EXCEPT ![t] = "none"]
    /\ UNCHANGED <<lock_holder, auth_initialized, auth_client, read_client,
                   last_call_time, now>>
    /\ LocksUnchanged

\* the clock moves on
Tick ==
    /\ now < MaxTime
    /\ now' = now + 1
    /\ UNCHANGED <<lock_holder, thread_pc, auth_initialized, auth_client,
                   read_client, thread_client, last_call_time>>
    /\ LocksUnchanged

\* a request to the exchange is in progress on thread t
in_network_call(t) == thread_pc[t] \in {"deriving", "calling"}

NextLocks ==
    \/ \E t \in Threads : TrackerLock(t)
    \/ \E t \in Threads : TrackerUnlock(t)
    \/ \E t \in Threads : AuthNoCredentials(t)
    \/ \E t \in Threads : AuthCheck(t)
    \/ \E t \in Threads : AuthLock(t)
    \/ \E t \in Threads : AuthRecheck(t)
    \/ \E t \in Threads : AuthDerived(t)
    \/ \E t \in Threads : ReadCheck(t)
    \/ \E t \in Threads : ReadLock(t)
    \/ \E t \in Threads : ReadCreate(t)
    \/ \E t \in Threads : WaitLock(t)
    \/ \E t \in Threads : WaitUnlock(t)
    \/ \E t \in Threads : CallReturn(t)
    \/ Tick

SpecLocks == Init /\ [][NextLocks]_vars

\* ============================================================== strategy
MaxSnapshots == 4

StrategyUnchanged ==
    UNCHANGED <<has_auth, trackerVars, exchangeVars, portfolioVars, autoVars,
                historyVars, safetyVars, lockVars, pollerVars, cancel_returned>>

\* dataclass Signal; percentages and confidences are exact rationals,
\* prices are in cents
Signal(market, side, strategy, edge_pct, confidence, entry_price) ==
    [market |-> market, side |-> side, strategy |-> strategy,
     edge_pct |-> edge_pct, confidence |-> confidence,
     entry_price |-> entry_price]

\* Signal.score
score(sig) == RMul(sig.edge_pct, sig.confidence)

\* list.sort(key=..., reverse=True) / sorted(..., reverse=True): descending
\* by key, elements of equal key in their original order
sorted_desc(seq, keys) ==
    LET n == Len(seq)
        pos(i) == Cardinality({j \in 1..n : RLt(keys[i], keys[j])})
                  + Cardinality({j \in 1..(i - 1) : keys[j] = keys[i]}) + 1
    IN  [k \in 1..n |-> seq[CHOOSE i \in 1..n : pos(i) = k]]

\* ---------------------------------------------------------- momentum
lookback_hours == 4
min_snapshots == 3
min_move_pct == RInt(5)
consistency_threshold == Rat(65, 100)

\* Store.get_price_history : the snapshots of the token no older than
\* `hours`, oldest first (the table is kept here in timestamp order)
get_price_history(snapshots, hours) ==
    SelectSeq(snapshots, LAMBDA s : s.age <= hours)

\* confidence=consistency, without the cap
momentum_confidence_uncapped(consistency) == consistency

\* confidence=min(consistency, 0.95)
momentum_confidence(consistency) == RMin(consistency, Rat(95, 100))

\* the body of the loop of find_momentum_signals for one market: the
\* signals it appends
momentum_signals_of(market) ==
    LET snapshots == get_price_history(market.snapshots, lookback_hours)
        prices == [i \in 1..Len(snapshots) |-> snapshots[i].price_yes]
        oldest_price == prices[1]
        newest_price == prices[Len(prices)]
        total_move == newest_price - oldest_price
        total_move_pct == Rat(Abs(total_move) * 100, oldest_price)
        direction == IF total_move > 0 THEN 1 ELSE -1
        intervals == Len(prices) - 1
        agreeing == Cardinality({i \in 1..intervals :
                        (prices[i + 1] - prices[i]) * direction > 0})
        consistency == Rat(agreeing, intervals)
        decay == RMax(Rat(3, 10), RSub(RInt(1), RDivInt(total_move_pct, 50)))
        edge == RMul(RMul(total_move_pct, consistency), decay)
    IN  IF market.price_yes < 10 \/ market.price_yes > 90 THEN <<>>
        ELSE IF Len(snapshots) < min_snapshots THEN <<>>
        ELSE IF oldest_price <= 0 THEN <<>>
        ELSE IF RLt(total_move_pct, min_move_pct) THEN <<>>
        ELSE IF RLt(consistency, consistency_threshold) THEN <<>>
        ELSE IF direction > 0
             THEN <<Signal(market.id, "YES", "momentum", edge,
                           momentum_confidence(consistency),
                           RInt(market.price_yes))>>
             ELSE <<Signal(market.id, "NO", "momentum", edge,
                           momentum_confidence(consistency),
                           RInt(market.price_no))>>

RECURSIVE momentum_appended(_)
momentum_appended(markets) ==
    IF markets = <<>> THEN <<>>
    ELSE momentum_signals_of(Head(markets)) \o momentum_appended(Tail(markets))

\* find_momentum_signals(markets) with the default thresholds
find_momentum_signals(markets) ==
    LET signals == momentum_appended(markets)
    IN  sorted_desc(signals, [i \in 1..Len(signals) |-> score(signals[i])])

\* inputs: snapshot prices in cents, how many of the oldest snapshots lie
\* outside the lookback window, the market's current YES price
SnapshotPrices == {0, 48, 50, 60}
PriceSeries == UNION {[1..n -> SnapshotPrices] : n \in 0..MaxSnapshots}
SnapshotTable(prices, n_old) ==
    [i \in 1..Len(prices) |->
        [age |-> IF i <= n_old THEN lookback_hours + 1 ELSE 1,
         price_yes |-> prices[i]]]
MomentumMarket(id, yes_cents, prices, n_old) ==
    [id |-> id, price_yes |-> yes_cents, price_no |-> 100 - yes_cents,
     snapshots |-> SnapshotTable(prices, n_old)]
SecondMarkets ==
    {<<>>, <<MomentumMarket("m2", 50, <<48, 50, 60, 90>>, 0)>>,
     <<MomentumMarket("m2", 50, <<90, 60, 48>>, 0)>>}

\* one call per behaviour: a call reads nothing an earlier call wrote
FindMomentum(markets) ==
    /\ ~momentum_call.called
    /\ momentum_call' = [called |-> TRUE, markets |-> markets,
                         result |-> find_momentum_signals(markets)]
    /\ UNCHANGED <<arb_scan, signals_call>>
    /\ StrategyUnchanged

NextMomentum ==
    \E yes_cents \in {5, 50, 95}, prices \in PriceSeries, n_old \in {0, 1},
       rest \in SecondMarkets :
        FindMomentum(<<MomentumMarket("m1", yes_cents, prices, n_old)>> \o rest)

SpecMomentum == Init /\ [][NextMomentum]_vars

\* --------------------------------------------------------- arbitrage
\* prices and asks of this strategy are exact rationals in dollars
min_profit_pct == Rat(15, 10)
fee_estimate == Rat(2, 1000)
gamma_cutoff == Rat(995, 1000)

\* if gamma_combined > 0.995: continue
gamma_prescreen_above(market) ==
    RLt(gamma_cutoff, RAdd(market.price_yes, market.price_no))

\* if gamma_combined >= 0.995: continue
gamma_prescreen_skips(market) ==
    RLe(gamma_cutoff, RAdd(market.price_yes, market.price_no))

\* net_profit_pct = 1.0 - live_combined, without the fees
arb_gross_profit_pct(yes_ask, no_ask) ==
    RScale(100, RSub(RInt(1), RAdd(yes_ask, no_ask)))

\* total_fees = (yes_ask + no_ask) * fee_estimate * 2
\* net_profit_pct = (1.0 - live_combined - total_fees) * 100
arb_net_profit_pct(yes_ask, no_ask) ==
    LET live_combined == RAdd(yes_ask, no_ask)
        total_fees == RScale(2, RMul(RAdd(yes_ask, no_ask), fee_estimate))
    IN  RScale(100, RSub(RSub(RInt(1), live_combined), total_fees))

ArbMarket(id, yes, no) == [id |-> id, price_yes |-> yes, price_no |-> no]
\* Gamma prices summing to 0.994, 0.995 and 1.000
GammaPrices ==
    {<<Rat(500, 1000), Rat(494, 1000)>>, <<Rat(500, 1000), Rat(495, 1000)>>,
     <<Rat(500, 1000), Rat(500, 1000)>>}
ArbInputs ==
    {<<ArbMarket("m1", g[1], g[2])>> : g \in GammaPrices}
    \cup {<<ArbMarket("m1", g[1], g[2]), ArbMarket("m2", h[1], h[2])>> :
            g \in GammaPrices, h \in GammaPrices}
\* what _get_best_ask returns: the best ask, or None for no book, no asks
\* or a failed request
YesAsks == {None, Rat(490, 1000), Rat(500, 1000)}
NoAsks == {None, Rat(481, 1000), Rat(482, 1000)}

ArbUnchanged == UNCHANGED <<momentum_call, signals_call>> /\ StrategyUnchanged

\* find_arbitrage_signals(markets) is entered; one call per behaviour
ArbBegin(markets) ==
    /\ ~arb_scan.called
    /\ arb_scan' = [arb_scan EXCEPT !.called = TRUE, !.pc = "prescreen",
                                    !.markets = markets, !.todo = markets]
    /\ ArbUnchanged

\* Step 1 of the loop body, the pre-screen with the Gamma prices
ArbPrescreen ==
    /\ arb_scan.pc = "prescreen"
    /\ arb_scan.todo # <<>>
    /\ arb_scan' = IF gamma_prescreen_skips(Head(arb_scan.todo))
                   THEN [arb_scan EXCEPT !.todo = Tail(arb_scan.todo)]
                   ELSE [arb_scan EXCEPT !.pc = "fetch_yes"]
    /\ ArbUnchanged

\* yes_ask = _get_best_ask(market.token_id_yes)
ArbFetchYes(ask) ==
    /\ arb_scan.pc = "fetch_yes"
    /\ arb_scan' = [arb_scan EXCEPT
            !.pc = "fetch_no", !.yes_ask = ask,
            !.fetched = Append(@, [market |-> Head(arb_scan.todo).id,
                                   token |-> "YES", ask |-> ask])]
    /\ ArbUnchanged

\* no_ask = _get_best_ask(market.token_id_no)
ArbFetchNo(ask) ==
    /\ arb_scan.pc = "fetch_no"
    /\ arb_scan' = [arb_scan EXCEPT
            !.pc = "decide", !.no_ask = ask,
            !.fetched = Append(@, [market |-> Head(arb_scan.todo).id,
                                   token |-> "NO", ask |-> ask])]
    /\ ArbUnchanged

\* the rest of the loop body: the None test, the fees, the threshold,
\* signals.append
ArbDecide ==
    /\ arb_scan.pc = "decide"
    /\ LET market == Head(arb_scan.todo)
           yes_ask == arb_scan.yes_ask
           no_ask == arb_scan.no_ask
           net_profit_pct == arb_net_profit_pct(yes_ask, no_ask)
           emit == /\ yes_ask # None
                   /\ no_ask # None
                   /\ ~RLt(net_profit_pct, min_profit_pct)
       IN  arb_scan' = [arb_scan EXCEPT
                !.pc = "prescreen", !.todo = Tail(arb_scan.todo),
                !.yes_ask = None, !.no_ask = None,
                !.signals = IF emit
                            THEN Append(@, Signal(market.id, "ARB", "arbitrage",
                                    net_profit_pct, Rat(95, 100),
                                    RAdd(yes_ask, no_ask)))
                            ELSE @]
    /\ ArbUnchanged

\* signals.sort(key=lambda s: s.edge_pct, reverse=True); return signals
ArbReturn ==
    /\ arb_scan.pc = "prescreen"
    /\ arb_scan.todo = <<>>
    /\ arb_scan' = [arb_scan EXCEPT
            !.pc = "idle",
            !.result = sorted_desc(arb_scan.signals,
                        [i \in 1..Len(arb_scan.signals) |->
                            arb_scan.signals[i].edge_pct])]
    /\ ArbUnchanged

NextArbitrage ==
    \/ \E markets \in ArbInputs : ArbBegin(markets)
    \/ ArbPrescreen
    \/ \E ask \in YesAsks : ArbFetchYes(ask)
    \/ \E ask \in NoAsks : ArbFetchNo(ask)
    \/ ArbDecide
    \/ ArbReturn

SpecArbitrage == Init /\ [][NextArbitrage]_vars

\* -------------------------------------------------------- dispatcher
MaxStrategies == 3

\* names find_signals can look up (the keys of STRATEGY_REGISTRY that the
\* inputs below use)
STRATEGY_REGISTRY == {"momentum", "arbitrage", "favorites"}

\* key = f"{sig.market.id}_{sig.side}"; the side is YES, NO or ARB, so two
\* keys are equal exactly when market id and side are
signal_key(sig) == <<sig.market, sig.side>>

\* func(markets) without the try/except: the exception leaves find_signals
run_strategy_uncaught(run) ==
    IF run.name \notin STRATEGY_REGISTRY
    THEN [sigs |-> <<>>, error |-> FALSE]
    ELSE IF run.raises THEN [sigs |-> <<>>, error |-> TRUE]
    ELSE [sigs |-> run.signals, error |-> FALSE]

\* one turn of the loop over strategies: what is added to all_signals and
\* whether an exception leaves find_signals
run_strategy(run) ==
    IF run.name \notin STRATEGY_REGISTRY
    THEN [sigs |-> <<>>, error |-> FALSE]
    ELSE IF run.raises THEN [sigs |-> <<>>, error |-> FALSE]
    ELSE [sigs |-> run.signals, error |-> FALSE]

RECURSIVE collect_signals(_)
collect_signals(runs) ==
    IF runs = <<>> THEN <<>>
    ELSE run_strategy(Head(runs)).sigs \o collect_signals(Tail(runs))

\* best_per_market keeping the first signal of each key
dedupe_keep_first(best, sig) ==
    IF \E i \in 1..Len(best) : signal_key(best[i]) = signal_key(sig)
    THEN best
    ELSE Append(best, sig)

\* if key not in best_per_market or sig.score > best_per_market[key].score
\* (the dict as the list of its values, in insertion order)
dedupe_step(best, sig) ==
    IF \E i \in 1..Len(best) : signal_key(best[i]) = signal_key(sig)
    THEN LET i == CHOOSE i \in 1..Len(best) : signal_key(best[i]) = signal_key(sig)
         IN  IF RLt(score(best[i]), score(sig))
             THEN [best EXCEPT ![i] = sig]
             ELSE best
    ELSE Append(best, sig)

RECURSIVE best_per_market(_, _)
best_per_market(best, sigs) ==
    IF sigs = <<>> THEN best
    ELSE best_per_market(dedupe_step(best, Head(sigs)), Tail(sigs))

\* find_signals(markets, strategies, min_edge_pct, max_results); runs tells
\* for each requested name what its strategy function does on these markets
find_signals(runs, min_edge, max_results) ==
    LET all_signals == collect_signals(runs)
        filtered == SelectSeq(all_signals, LAMBDA s : RLe(min_edge, s.edge_pct))
        best == best_per_market(<<>>, filtered)
        result == sorted_desc(best, [i \in 1..Len(best) |-> score(best[i])])
        raised == \E k \in 1..Len(runs) : run_strategy(runs[k]).error
    IN  IF raised
        THEN [result |-> <<>>, error |-> TRUE]
        ELSE [result |-> SubSeq(result, 1, IF max_results < Len(result)
                                           THEN max_results ELSE Len(result)),
              error |-> FALSE]

\* signals a strategy may return: <<market, side, edge_pct, confidence>>
SigA == Signal("m1", "YES", "momentum", RInt(8), Rat(1, 2), RInt(50))
SigB == Signal("m1", "YES", "favorites", RInt(5), RInt(1), RInt(50))
SigC == Signal("m1", "YES", "momentum", Rat(9, 2), RInt(1), RInt(50))
SigD == Signal("m2", "NO", "favorites", RInt(10), Rat(1, 2), RInt(40))
SigE == Signal("m1", "NO", "momentum", RInt(6), RInt(1), RInt(50))
StrategyOutputs ==
    {<<>>, <<SigA>>, <<SigA, SigB>>, <<SigB, SigA>>, <<SigC, SigE>>,
     <<SigD, SigE>>, <<SigB, SigD>>, <<SigD, SigB>>}
StrategyRuns ==
    {[name |-> "momentum", raises |-> FALSE, signals |-> out] :
        out \in StrategyOutputs}
    \cup {[name |-> "favorites", raises |-> TRUE, signals |-> <<SigB, SigD>>],
          [name |-> "nonexistent_strategy", raises |-> FALSE, signals |-> <<>>]}
RunLists == UNION {[1..n -> StrategyRuns] : n \in 0..MaxStrategies}

\* one call per behaviour: a call reads nothing an earlier call wrote
FindSignals(runs, min_edge, max_results) ==
    /\ ~signals_call.called
    /\ LET out == find_signals(runs, min_edge, max_results)
       IN  signals_call' = [called |-> TRUE, strategies |-> runs,
                            min_edge_pct |-> min_edge,
                            max_results |-> max_results,
                            result |-> out.result, error |-> out.error]
    /\ UNCHANGED <<momentum_call, arb_scan>>
    /\ StrategyUnchanged

NextSignals ==
    \E runs \in RunLists, max_results \in {0, 1, 2, 10} :
        FindSignals(runs, RInt(5), max_results)

SpecSignals == Init /\ [][NextSignals]_vars

\* ------------------------------------------------------------- sizing
\* The betting loop of run_once over several markets. The OrderManager is
\* the environment here: `success` is the answer of buy_with_tp_sl (or of
\* both legs of an arbitrage); what it does with the order is SpecTrade's.
SizingMarkets == {"m1", "m2", "m3", "m4", "m5"}
\* market.price_yes in cents
sizing_price_yes(market) == IF market \in {"m4", "m5"} THEN 50 ELSE 10

\* entry_price = market.price_yes if side == "YES" else market.price_no
market_entry_price(market, side) ==
    IF side = "YES" THEN RInt(sizing_price_yes(market))
    ELSE RInt(100 - sizing_price_yes(market))

\* place_auto_bet, "Track the bet", with the market the bet is on
MarketBet(market, side, bet_size) ==
    [market |-> market, side |-> side, size |-> bet_size,
     entry_price |-> market_entry_price(market, side)]

SizingUnchanged ==
    UNCHANGED <<has_auth, trackerVars, exchangeVars, portfolioVars, autoVars,
                historyVars, lockVars, strategyVars, pollerVars, cancel_returned, kill_switch, pnl_day,
                today, realized_pnl_day_start, bot_realized_pnl>>

\* run_once up to the loop: the breaker is quiet, bets_placed = 0
SizingBegin ==
    /\ ~scan.busy
    /\ ~kill_switch
    /\ scan' = [ScanIdle EXCEPT !.busy = TRUE]
    /\ UNCHANGED active_bets
    /\ SizingUnchanged

\* one turn of the loop over opportunities
SizingEntry(market, side, guard_skips, success) ==
    /\ scan.busy
    /\ IF ~can_place_bet(active_bets)
       THEN scan' = ScanIdle /\ UNCHANGED active_bets
       ELSE IF \E b \in active_bets : b.market = market
            THEN UNCHANGED <<scan, active_bets>>
       ELSE IF guard_skips
            THEN UNCHANGED <<scan, active_bets>>
       ELSE IF ~success
            THEN UNCHANGED <<scan, active_bets>>
       ELSE /\ active_bets' = active_bets \cup
                    {MarketBet(market, side, calculate_bet_size(active_bets))}
            /\ scan' = IF scan.bets_placed + 1 >= 2
                       THEN ScanIdle
                       ELSE [scan EXCEPT !.bets_placed = @ + 1]
    /\ SizingUnchanged

\* the opportunities are exhausted
SizingEnd ==
    /\ scan.busy
    /\ scan' = ScanIdle
    /\ UNCHANGED active_bets
    /\ SizingUnchanged

NextSizing ==
    \/ SizingBegin
    \/ \E market \in SizingMarkets, side \in {"YES", "NO"},
          guard_skips \in BOOLEAN, success \in BOOLEAN :
            SizingEntry(market, side, guard_skips, success)
    \/ SizingEnd

SpecSizing == Init /\ [][NextSizing]_vars

\* ============================================================== pollers
\* OrderTracker.start / stop / poll_once and the threads running
\* _check_all_orders. Nothing but the snapshot is taken under the tracker's
\* lock, so the steps of _check_order on different threads interleave; a
\* thread's step from get_order's answer to its read of order.filled_size
\* is one action, the rest of _check_order another.
PollersUnchanged ==
    UNCHANGED <<has_auth, lockVars, strategyVars, safetyVars, autoVars, pollQ,
                buyResults, cancel_returned>>

\* the orders placed while the threads run, and the threads that are in
\* the for loop of _check_all_orders together
MaxPolled == 1
MaxPolling == 2
Polling == {w \in Workers : workers[w].pc \in {"checking", "got"}}

\* where a thread is when its _check_all_orders returns
done_pc(w) == IF w \in LoopThreads THEN "loop" ELSE "dead"

\* _check_all_orders : the snapshot, and the early return
check_all_begin(w) ==
    LET active == IF has_auth THEN ActiveFrom(orders, 1) ELSE <<>>
    IN  IF active = <<>> THEN [NoWorker EXCEPT !.pc = done_pc(w)]
        ELSE [NoWorker EXCEPT !.pc = "checking", !.active = active]

\* the for loop of _check_all_orders after one _check_order
next_order(w) ==
    IF Tail(workers[w].active) = <<>> THEN [NoWorker EXCEPT !.pc = done_pc(w)]
    ELSE [NoWorker EXCEPT !.pc = "checking", !.active = Tail(workers[w].active)]

\* OrderTracker.start
Start ==
    /\ IF running
       THEN UNCHANGED <<running, workers>>
       ELSE /\ running' = TRUE
            /\ \E w \in LoopThreads :
                  /\ workers[w].pc = "dead"
                  /\ workers' = [workers EXCEPT ![w] = [NoWorker EXCEPT !.pc = "loop"]]
    /\ UNCHANGED <<trackerVars, exchangeVars, portfolioVars, fillCalls, cancelCalls>>
    /\ UNCHANGED stale_seen
    /\ PollersUnchanged

\* OrderTracker.stop : _running = False; join(timeout=10) returns when the
\* thread has ended or when the timeout is over, whichever is first
Stop ==
    /\ running' = FALSE
    /\ UNCHANGED <<workers, trackerVars, exchangeVars, portfolioVars, fillCalls,
                   cancelCalls>>
    /\ UNCHANGED stale_seen
    /\ PollersUnchanged

\* _poll_loop : while self._running, after time.sleep(poll_interval)
LoopTest(w) ==
    /\ w \in LoopThreads
    /\ workers[w].pc = "loop"
    /\ running => Cardinality(Polling) < MaxPolling
    /\ workers' = [workers EXCEPT ![w] = IF running THEN check_all_begin(w)
                                         ELSE NoWorker]
    /\ UNCHANGED <<running, trackerVars, exchangeVars, portfolioVars, fillCalls,
                   cancelCalls>>
    /\ UNCHANGED stale_seen
    /\ PollersUnchanged

\* OrderTracker.poll_once
PollOnce(w) ==
    /\ w \notin LoopThreads
    /\ workers[w].pc = "dead"
    /\ Cardinality(Polling) < MaxPolling
    /\ workers' = [workers EXCEPT ![w] = check_all_begin(w)]
    /\ workers'[w].pc # "dead"
    /\ UNCHANGED <<running, trackerVars, exchangeVars, portfolioVars, fillCalls,
                   cancelCalls>>
    /\ UNCHANGED stale_seen
    /\ PollersUnchanged

\* _check_order, stale path: is_stale (now - created_at > stale_after) reads
\* true, and reads true on every thread from then on
WorkerStale(w, cancel_reply) ==
    /\ workers[w].pc = "checking"
    /\ LET oid    == Head(workers[w].active)
           order  == orders[oid]
           status == IF cancel_reply = "ok" THEN "CANCELLED" ELSE "EXPIRED"
       IN  /\ orders' = [orders EXCEPT ![oid].status = status]
           /\ pending' = update_pending_order(pending, oid, status,
                                              order.filled_size,
                                              order.avg_fill_price)
           /\ exch' = IF cancel_reply = "ok" /\ exch[oid].status = "LIVE"
                      THEN [exch EXCEPT ![oid].status = "CANCELLED"]
                      ELSE exch
           /\ cancelCalls' = [cancelCalls EXCEPT ![oid] = @ + 1]
    /\ stale_seen' = stale_seen \cup {Head(workers[w].active)}
    /\ workers' = [workers EXCEPT ![w] = next_order(w)]
    /\ UNCHANGED <<running, nextOid, portfolioVars, fillCalls>>
    /\ PollersUnchanged

\* _check_order : get_order raised or answered nothing
WorkerError(w) ==
    /\ workers[w].pc = "checking"
    /\ Head(workers[w].active) \notin stale_seen
    /\ workers' = [workers EXCEPT ![w] = next_order(w)]
    /\ UNCHANGED <<running, trackerVars, exchangeVars, portfolioVars, fillCalls,
                   cancelCalls>>
    /\ UNCHANGED stale_seen
    /\ PollersUnchanged

\* _check_order : get_order answered; prev_filled = order.filled_size
WorkerGetOrder(w, api) ==
    /\ workers[w].pc = "checking"
    /\ Head(workers[w].active) \notin stale_seen
    /\ workers' = [workers EXCEPT ![w].pc = "got", ![w].api = api,
                      ![w].prev_filled = orders[Head(workers[w].active)].filled_size]
    /\ UNCHANGED <<running, trackerVars, exchangeVars, portfolioVars, fillCalls,
                   cancelCalls>>
    /\ UNCHANGED stale_seen
    /\ PollersUnchanged

\* _check_order from "if new_fill > 0.001" to its end. raises: on_fill
\* raises; the exception leaves _check_order and is caught by the for loop
\* of _check_all_orders.
WorkerFinish(w, raises) ==
    /\ workers[w].pc = "got"
    /\ LET oid      == Head(workers[w].active)
           api      == workers[w].api
           order    == orders[oid]
           size_matched == ApiSizeMatched(api)
           fill_price   == ApiFillPrice(api, order)
           new_fill == size_matched - workers[w].prev_filled
           order1   == IF IsNewFill(new_fill)
                       THEN [order EXCEPT
                               !.filled_size = size_matched,
                               !.avg_fill_price = NewAvgFillPrice(
                                   [order EXCEPT !.filled_size = workers[w].prev_filled],
                                   size_matched, fill_price)]
                       ELSE order
           status   == NewStatus(api.status, order1)
       IN  IF raises
           THEN /\ IsNewFill(new_fill)
                /\ orders' = [orders EXCEPT ![oid] = order1]
                /\ UNCHANGED <<pending, portfolioVars, fillCalls, cancelCalls>>
           ELSE /\ IF IsNewFill(new_fill)
                   THEN /\ Len(fillCalls[oid]) < MaxDeliveries
                        /\ SetPortfolio(on_order_fill(PortfolioState, oid, order1,
                                                      new_fill, fill_price))
                        /\ fillCalls' = [fillCalls EXCEPT ![oid] = Append(@,
                               [size |-> new_fill, price |-> fill_price,
                                full |-> api.full])]
                   ELSE UNCHANGED <<portfolioVars, fillCalls>>
                /\ orders' = [orders EXCEPT ![oid] = [order1 EXCEPT !.status = status]]
                /\ pending' = update_pending_order(pending, oid, status,
                                                   order1.filled_size,
                                                   order1.avg_fill_price)
                /\ cancelCalls' = IF status = "CANCELLED"
                                  THEN [cancelCalls EXCEPT ![oid] = @ + 1]
                                  ELSE cancelCalls
    /\ workers' = [workers EXCEPT ![w] = next_order(w)]
    /\ UNCHANGED <<running, exchangeVars>>
    /\ UNCHANGED stale_seen
    /\ PollersUnchanged

\* the answers of get_order that show all the exchange has matched
CurrentResponses(oid) ==
    {api \in Responses(oid) : api.size_matched = SumSize(exch[oid].trades)}

\* the entry of the concurrent runs: one accepted or refused BUY
PollersBuy(accept) ==
    /\ nextOid < MaxPolled
    /\ BuyCall("tokY", 4, RInt(50), accept)
    /\ UNCHANGED <<running, workers, portfolioVars, fillCalls, cancelCalls>>
    /\ UNCHANGED stale_seen
    /\ PollersUnchanged

NextPollers ==
    \/ \E accept \in BOOLEAN : PollersBuy(accept)
    \/ \E o \in OrderIds, s \in FillSizes : ExchangeFill(o, s)
    \/ Start
    \/ Stop
    \/ \E w \in Workers : LoopTest(w)
    \/ \E w \in Workers : PollOnce(w)
    \/ \E w \in Workers, c \in {"ok", "refused", "raise"} : WorkerStale(w, c)
    \/ \E w \in Workers : WorkerError(w)
    \/ \E w \in Workers : workers[w].pc = "checking" /\
          \E api \in CurrentResponses(Head(workers[w].active)) : WorkerGetOrder(w, api)
    \/ \E w \in Workers, raises \in BOOLEAN : WorkerFinish(w, raises)

\* OrderManager's entry, the exchange, start/stop/poll_once and the threads
SpecPollers == Init /\ [][NextPollers]_vars

\* ------------------------------------------- on_fill raising in a poll
\* _check_order when self.on_fill raises: order.filled_size and
\* avg_fill_price are already assigned, the exception leaves _check_order
\* before the status step and any update_pending_order, and the for loop of
\* _check_all_orders logs it and goes on.
CheckOrderFillRaises(api) ==
    /\ pollQ # <<>>
    /\ LET oid   == Head(pollQ)
           order == orders[oid]
       IN  /\ IsNewFill(ApiSizeMatched(api) - order.filled_size)
           /\ orders' = [orders EXCEPT ![oid] = AfterFill(order, api)]
    /\ pollQ' = Tail(pollQ)
    /\ UNCHANGED <<has_auth, lockVars, strategyVars, pollerVars, cancel_returned, safetyVars, pending, exchangeVars, portfolioVars,
                   autoVars, historyVars>>

NextFillRaises ==
    \/ \E accept \in BOOLEAN : Buy("tokY", 4, RInt(50), accept)
    \/ \E o \in OrderIds, s \in FillSizes : ExchangeFill(o, s)
    \/ PollBegin
    \/ CheckOrderError
    \/ pollQ # <<>> /\ \E api \in Responses(Head(pollQ)) : CheckOrder(api)
    \/ pollQ # <<>> /\ \E api \in Responses(Head(pollQ)) : CheckOrderFillRaises(api)

\* one poll worker whose on_fill callback may raise
SpecFillRaises == Init /\ [][NextFillRaises]_vars

\* ------------------------------------------------- exposure near the cap
\* PortfolioManager.__init__ on a Store that holds one position, the sum of
\* earlier validated entries: 1900 NO shares at 50c, a cost basis of $950.
LoadedPosition == [present |-> TRUE, size |-> 1900, avg_entry_price |-> RInt(50)]

InitExposure ==
    /\ FreshObjects
    /\ positions = [k \in PosKeys |-> IF k[1] = "tokN" THEN LoadedPosition ELSE NoPos]
    /\ dbPositions = positions
    /\ realized_pnl = RZero
    /\ bot_realized_pnl = RZero
    /\ kill_switch = FALSE
    /\ pnl_day = 0
    /\ realized_pnl_day_start = RZero

\* <<size, limit price, post_order accepted>>: $40 trades that pass
\* _validate_trade while the exposure is $950, a $95 trade that would exceed
\* max_total_exposure, a $150 trade above max_trade_size
ExposureInputs == {<<80, 50, TRUE>>, <<80, 50, FALSE>>, <<190, 50, TRUE>>,
                   <<300, 50, TRUE>>}
ExposureFills == {40, 80}

NextExposure ==
    \/ \E i \in ExposureInputs : Buy("tokY", i[1], RInt(i[2]), i[3])
    \/ \E o \in OrderIds, s \in ExposureFills : ExchangeFill(o, s)
    \/ PollBegin
    \/ CheckOrderError
    \/ pollQ # <<>> /\ \E api \in Responses(Head(pollQ)) : CheckOrder(api)

\* BUY orders through OrderManager.buy on a Portfolio $50 below the cap
SpecExposure == InitExposure /\ [][NextExposure]_vars

\* =========================================================== properties
Min(a, b) == IF a < b THEN a ELSE b

LastFill(o) == fillCalls'[o][Len(fillCalls'[o])]

Delivered(o) == fillCalls'[o] # fillCalls[o]

\* sum of the sizes of the ledger rows of one action recorded for order o
RECURSIVE RowSum(_)
RowSum(rows) ==
    IF rows = {} THEN 0
    ELSE LET r == CHOOSE x \in rows : TRUE
         IN  r.size * CopiesIn(r, trades) + RowSum(rows \ {r})

LedgerSize(o, action) ==
    RowSum({r \in BagToSet(trades) : r.oid = o /\ r.action = action})

\* the trades of ts that take the cumulative size from above lo up to hi
RECURSIVE Portion(_, _, _, _)
Portion(ts, j, lo, hi) ==
    IF j > Len(ts) THEN <<>>
    ELSE LET c == SumSize(SubSeq(ts, 1, j))
         IN  (IF lo < c /\ c <= hi THEN <<ts[j]>> ELSE <<>>)
             \o Portion(ts, j + 1, lo, hi)

RECURSIVE CallSum(_)
CallSum(cs) == IF cs = <<>> THEN 0 ELSE cs[1].size + CallSum(Tail(cs))

Vwap(ts) == Rat(SumValue(ts), SumSize(ts))

C2_FilledNeverDecreases ==
    [][\A o \in OrderIds :
          orders[o].status # "NONE" =>
             orders'[o].filled_size >= orders[o].filled_size
      ]_vars

\* C3: for a BUY order filled over several polls whose responses list all
\* trades so far, each on_fill carries the size and the price of the newly
\* filled portion, and once MATCHED the position of an otherwise unused
\* token has the order's total size at the size-weighted average price of
\* all its trades
C3_FillCarriesNewPortion ==
    \A o \in OrderIds :
       (/\ orders[o].status # "NONE" /\ orders[o].order_side = "BUY"
        /\ \A i \in 1..Len(fillCalls[o]) : fillCalls[o][i].full)
       =>
       /\ \A i \in 1..Len(fillCalls[o]) :
             LET lo == CallSum(SubSeq(fillCalls[o], 1, i - 1))
                 hi == lo + fillCalls[o][i].size
                 new == Portion(exch[o].trades, 1, lo, hi)
             IN  /\ SumSize(new) = fillCalls[o][i].size
                 /\ fillCalls[o][i].price = Vwap(new)
       /\ (/\ orders[o].status = "MATCHED"
           /\ \A p \in OrderIds \ {o} :
                 orders[p].status = "NONE" \/ orders[p].token_id # orders[o].token_id)
          => LET pos == positions[<<orders[o].token_id, orders[o].side>>]
             IN  /\ pos.size = SumSize(exch[o].trades)
                 /\ pos.avg_entry_price = Vwap(exch[o].trades)

C5_CancelOnceAndFinal ==
    [][\A o \in OrderIds :
          /\ cancelCalls'[o] <= 1
          /\ cancelCalls[o] >= 1 =>
                /\ orders[o].status \in {"CANCELLED", "EXPIRED"}
                /\ orders'[o].status \in {"CANCELLED", "EXPIRED"}
                /\ ~InPollQ(o)
                /\ \A i \in 1..Len(pollQ') : pollQ'[i] # o
                /\ fillCalls'[o] = fillCalls[o]
                /\ cancelCalls'[o] = cancelCalls[o]
      ]_vars

\* an order with a delivered fill got its on_cancel, and a later poll cycle
\* is running over another order
C5_Witness ==
    \E o \in OrderIds :
       /\ cancelCalls[o] = 1 /\ fillCalls[o] # <<>>
       /\ pollQ # <<>>

\* the two orders are linked to each other
Linked(a, b) ==
    /\ autoOrders[a].linked_order_id = b
    /\ autoOrders[b].linked_order_id = a

\* the step is _check_order evaluating the order at the head of mon.todo
Evaluates == mon.todo # <<>> /\ mon.exec = 0 /\ mon' # mon

\* C6: for every OCO pair of set_oco, once one order is EXECUTED the other
\* is CANCELLED (already when the executing step ends, so by the end of the
\* tick) and submits no sell from then on
C6_OcoPartnerCancelled ==
    [][\A a \in AutoIds :
          autoOrders'[a].state = "EXECUTED" /\ autoOrders'[a].linked_order_id # 0 =>
             LET b == autoOrders'[a].linked_order_id
             IN  /\ autoOrders'[b].state = "CANCELLED"
                 /\ autoOrders[a].state = "EXECUTED" => sellCalls'[b] = sellCalls[b]
      ]_vars

\* an OCO order was EXECUTED at a price that triggers its partner too, and
\* the tick is over with the partner CANCELLED and never sold
C6_Witness ==
    \E a \in AutoIds :
       /\ autoOrders[a].state = "EXECUTED" /\ autoOrders[a].linked_order_id # 0
       /\ LET b == autoOrders[a].linked_order_id
          IN  /\ autoOrders[b].state = "CANCELLED"
              /\ autoOrders[b].trigger_price = autoOrders[a].trigger_price
              /\ sellCalls[b] = 0
       /\ ~mon.busy

\* C7: the take-profit and the stop-loss that one successful buy_with_tp_sl
\* created are linked to each other, so that once one is EXECUTED the other
\* is CANCELLED and submits no second sell
C7_TpSlLinked ==
    \A r \in buyResults :
       r.take_profit_id # 0 /\ r.stop_loss_id # 0 =>
          /\ Linked(r.take_profit_id, r.stop_loss_id)
          /\ autoOrders[r.take_profit_id].state = "EXECUTED"
                => /\ autoOrders[r.stop_loss_id].state = "CANCELLED"
                   /\ sellCalls[r.stop_loss_id] = 0
          /\ autoOrders[r.stop_loss_id].state = "EXECUTED"
                => /\ autoOrders[r.take_profit_id].state = "CANCELLED"
                   /\ sellCalls[r.take_profit_id] = 0

\* C8: an AutoOrder changes state only along ACTIVE -> TRIGGERED ->
\* {EXECUTED, FAILED} or ACTIVE -> CANCELLED
C8_StateMachine ==
    [][\A a \in AutoIds :
          autoOrders'[a].state # autoOrders[a].state =>
             <<autoOrders[a].state, autoOrders'[a].state>> \in
                {<<"NONE", "ACTIVE">>, <<"ACTIVE", "TRIGGERED">>,
                 <<"TRIGGERED", "EXECUTED">>, <<"TRIGGERED", "FAILED">>,
                 <<"ACTIVE", "CANCELLED">>}
      ]_vars

\* C9: a TRAILING_STOP's highest_price and trigger_price never decrease, and
\* after each evaluation by the monitor the trigger_price is the maximum of
\* its previous value and highest_price * (1 - trailing_percent)
C9_TrailingRatchet ==
    [][\A a \in AutoIds :
          autoOrders[a].state # "NONE" /\ autoOrders[a].order_type = "TRAILING_STOP" =>
             /\ RLe(autoOrders[a].highest_price, autoOrders'[a].highest_price)
             /\ RLe(autoOrders[a].trigger_price, autoOrders'[a].trigger_price)
             /\ Evaluates /\ a = Head(mon.todo) =>
                   autoOrders'[a].trigger_price =
                      RMax(autoOrders[a].trigger_price,
                           RMul(autoOrders'[a].highest_price,
                                RSub(RInt(1), autoOrders[a].trailing_percent)))
      ]_vars

\* a trailing stop was ratcheted up from its first stop price and then
\* evaluated at a lower price
C9_Witness ==
    \E a \in AutoIds :
       /\ autoOrders[a].state # "NONE" /\ autoOrders[a].order_type = "TRAILING_STOP"
       /\ RLt(RInt(50), autoOrders[a].highest_price)
       /\ mon.exec = a
       /\ RLt(mon.price, autoOrders[a].highest_price)

\* C10: when the monitor evaluates an AutoOrder at midpoint p, a TAKE_PROFIT
\* triggers exactly when it is ACTIVE and p >= trigger_price, a STOP_LOSS
\* exactly when it is ACTIVE and p <= trigger_price; an order that is not
\* ACTIVE never triggers
C10_TriggerRule ==
    [][/\ Evaluates =>
            LET a == Head(mon.todo)
                o == autoOrders[a]
                p == mon.price
                triggers == /\ autoOrders'[a].state = "TRIGGERED"
                            /\ sellCalls'[a] = sellCalls[a] + 1
            IN  /\ o.order_type = "TAKE_PROFIT" =>
                      (triggers <=> o.state = "ACTIVE" /\ RLe(o.trigger_price, p))
                /\ o.order_type = "STOP_LOSS" =>
                      (triggers <=> o.state = "ACTIVE" /\ RLe(p, o.trigger_price))
       /\ \A a \in AutoIds :
             sellCalls'[a] # sellCalls[a] \/
             (autoOrders'[a].state = "TRIGGERED" /\ autoOrders[a].state # "TRIGGERED")
                => autoOrders[a].state = "ACTIVE"
      ]_vars

\* a take-profit triggered at a midpoint equal to its trigger price while
\* an order that is no longer ACTIVE waits in the same tick's snapshot
C10_Witness ==
    /\ mon.exec # 0
    /\ autoOrders[mon.exec].order_type = "TAKE_PROFIT"
    /\ autoOrders[mon.exec].trigger_price = mon.price
    /\ \E i \in 1..Len(mon.todo) : autoOrders[mon.todo[i]].state # "ACTIVE"

\* a BUY order that the exchange takes in this step
NewBuySubmitted ==
    \E o \in OrderIds :
       /\ exch[o].status = "NONE" /\ exch'[o].status # "NONE"
       /\ orders'[o].status # "NONE" /\ orders'[o].order_side = "BUY"

\* C11: while the kill switch is set, no new BUY order is submitted to the
\* exchange (sells are not looked at by the switch)
C11_KillSwitchBlocksBuy == [][kill_switch => ~NewBuySubmitted]_vars

\* C12: once the kill switch is set it stays set: no scan cycle, fill
\* callback, breaker re-evaluation or new calendar day clears it
C12_KillSwitchStaysSet == [][kill_switch => kill_switch']_vars

\* a breaker set the switch, and a later check on a new day, at which the
\* loss condition no longer holds, has run with the switch still set
C12_Witness ==
    /\ scan.tripped /\ scan.busy /\ kill_switch
    /\ today = MaxDay /\ pnl_day = today
    /\ ~circuit_breaker_check

\* the realized P&L booked by fill callbacks since the day-start snapshot is
\* a loss of max_daily_loss_usd or more
DailyLossReached ==
    /\ pnl_day = today
    /\ max_daily_loss_usd # RZero
    /\ RLe(RSub(realized_pnl, realized_pnl_day_start),
           RSub(RZero, RScale(100, max_daily_loss_usd)))

\* C13: when the day's realized loss has reached max_daily_loss_usd, the
\* circuit-breaker check that opens the next scan cycle sets the kill switch
\* (before any BUY of the cycle)
C13_DailyLossSetsKillSwitch ==
    [][(~scan.busy /\ scan'.busy /\ DailyLossReached) => kill_switch']_vars

\* the intent of a tracked order: what the fingerprint is computed from
\* (strategy is the same for all orders here, and so is the time bucket of
\* two submissions that follow each other)
IntentOf(o) ==
    <<orders[o].token_id, orders[o].side, orders[o].order_side,
      orders[o].limit_price, orders[o].size>>

\* C14: the same order intent submitted twice leads to one post_order call
\* only: no two orders accepted by the exchange carry the same intent
C14_OnePostPerIntent ==
    \A o1, o2 \in OrderIds :
       (/\ o1 # o2
        /\ orders[o1].status # "NONE" /\ orders[o2].status # "NONE"
        /\ exch[o1].status # "NONE" /\ exch[o2].status # "NONE")
       => IntentOf(o1) # IntentOf(o2)

\* a book on which the spread guard lets an entry pass: both sides present,
\* not crossed, and (ask - bid) / mid * 10000 <= max_spread_bps
BookAllowsEntry(book) ==
    /\ book.present
    /\ book.bids # {} /\ book.asks # {}
    /\ \E bid \in book.bids, ask \in book.asks :
          /\ \A b \in book.bids : b <= bid
          /\ \A a \in book.asks : ask <= a
          /\ bid <= ask
          /\ (ask - bid) * 10000 * 2 <= max_spread_bps * (bid + ask)

\* C15: a turn of the scan loop places an entry only on a token whose
\* orderbook is present, has bids and asks, is not inverted and has a
\* spread of at most max_spread_bps
C15_SpreadGuard ==
    [][(scan.busy /\ scan.arb = "" /\ scan' # scan /\ NewBuySubmitted)
          => BookAllowsEntry(scan'.book)]_vars

\* sum of the sizes of the ledger rows of one position and one action
RECURSIVE LedgerSum(_, _, _)
LedgerSum(rows, key, action) ==
    IF rows = {} THEN 0
    ELSE LET r == CHOOSE x \in rows : TRUE
         IN  (IF <<r.token_id, r.side>> = key /\ r.action = action
              THEN r.size * CopiesIn(r, trades) ELSE 0)
             + LedgerSum(rows \ {r}, key, action)

HeldSize(key) == IF positions[key].present THEN positions[key].size ELSE 0

\* C16: after any sequence of add_position and close_position calls, for
\* every (token_id, side) the BUY sizes minus the SELL sizes of the trade
\* ledger equal the size of the live position, 0 when it is deleted
C16_LedgerNetEqualsPosition ==
    \A key \in PosKeys :
       LedgerSum(BagToSet(trades), key, "BUY")
         - LedgerSum(BagToSet(trades), key, "SELL") = HeldSize(key)

\* a close of 5 met a holding of 2 or 3 (the ledger row carries the held
\* size, which no close asks for), the position is gone, and the other
\* position is still held
C16_Witness ==
    /\ \E r \in BagToSet(trades) :
          /\ r.action = "SELL" /\ r.size \in {2, 3}
          /\ ~positions[<<r.token_id, r.side>>].present
    /\ \E key \in PosKeys : positions[key].present

ExitsOf(r) == {r.take_profit_id, r.stop_loss_id, r.trailing_stop_id} \ {0}

\* C18: the exits attached to a BUY become ACTIVE only from that BUY's fill
\* callback: an exit that exists (ACTIVE or later) implies that an on_fill of
\* the BUY has been delivered
C18_ExitsAfterFill ==
    \A r \in buyResults :
       \A a \in ExitsOf(r) :
          autoOrders[a].state # "NONE" => fillCalls[r.buy_result] # <<>>

\* C19: the market sell of a triggered AutoOrder that the exchange accepts is
\* registered with the OrderTracker (so that its fills reach on_fill): every
\* order the exchange holds is a tracked order
C19_AcceptedSellTracked ==
    \A o \in OrderIds : exch[o].status # "NONE" => orders[o].status # "NONE"

\* C20: while AutoTrader.run is running, every ACTIVE AutoOrder is evaluated
\* against the midpoint at least once per scan cycle: when a cycle ends, each
\* ACTIVE AutoOrder has been looked at by _check_order since it began
C20_EvaluatedEachCycle ==
    [][(scan.busy /\ ~scan'.busy)
          => \A a \in AutoIds : autoOrders[a].state = "ACTIVE" => a \in evaluated]_vars

\* an order that the exchange takes in this step
NewOrderSubmitted ==
    \E o \in OrderIds : exch[o].status = "NONE" /\ exch'[o].status # "NONE"

\* C21: in the scan cycle in which a bet's age exceeds max_hold_hours, the
\* bet leaves the active bets and a market sell for its position is
\* submitted to the exchange
C21_TimeoutSellsAtMarket ==
    [][(scan.busy /\ ~scan'.busy /\ active_bets' # active_bets)
          => NewOrderSubmitted]_vars

\* the tracker holds exactly the Store's rows with status LIVE or
\* PARTIALLY_FILLED, each with the persisted fields; a tracked order that is
\* not such a row is terminal in memory and in the Store alike
TrackerMatchesStore ==
    \A o \in OrderIds :
       IF pending[o].status \in {"LIVE", "PARTIALLY_FILLED"}
       THEN orders[o] = pending[o]
       ELSE orders[o].status \notin {"LIVE", "PARTIALLY_FILLED"}

C23_NoLockDuringNetworkCall ==
    \A t \in Threads : in_network_call(t) =>
        \A l \in Locks : lock_holder[l] # t

\* the YES prices of a market's snapshots inside the lookback window
WindowPrices(market) ==
    LET w == get_price_history(market.snapshots, lookback_hours)
    IN  [i \in 1..Len(w) |-> w[i].price_yes]

\* the market of the call that signal sig was emitted for
MarketOfSignal(call, sig) ==
    call.markets[CHOOSE k \in 1..Len(call.markets) : call.markets[k].id = sig.market]

\* C26: every signal of find_momentum_signals (default thresholds) has
\* 0.65 <= confidence <= 0.95 and edge_pct > 0, is YES exactly when the last
\* snapshot price of the window is above the first and NO exactly when it is
\* below; a market with fewer than min_snapshots snapshots in the window or
\* with price_yes outside [0.10, 0.90] yields no signal
C26_MomentumSignals ==
    momentum_call.called =>
        /\ \A i \in 1..Len(momentum_call.result) :
            LET sig == momentum_call.result[i]
                p == WindowPrices(MarketOfSignal(momentum_call, sig))
            IN  /\ RLe(Rat(65, 100), sig.confidence)
                /\ RLe(sig.confidence, Rat(95, 100))
                /\ RLt(RZero, sig.edge_pct)
                /\ sig.side \in {"YES", "NO"}
                /\ (sig.side = "YES") <=> (p[Len(p)] > p[1])
                /\ (sig.side = "NO") <=> (p[Len(p)] < p[1])
        /\ \A k \in 1..Len(momentum_call.markets) :
            LET m == momentum_call.markets[k]
            IN  (\/ Len(WindowPrices(m)) < min_snapshots
                 \/ m.price_yes < 10
                 \/ m.price_yes > 90)
                => \A i \in 1..Len(momentum_call.result) :
                        momentum_call.result[i].market # m.id

\* a call that returned a falling-price NO signal and a signal whose
\* consistency of 2/3 lies strictly inside the confidence range
C26_Witness ==
    /\ momentum_call.called
    /\ \E i, j \in 1..Len(momentum_call.result) :
        /\ momentum_call.result[i].side = "NO"
        /\ momentum_call.result[j].confidence = Rat(2, 3)
        /\ momentum_call.result[j].side = "YES"

\* the entries of the fetch log for one token of a market
FetchesOf(log, id, token) ==
    {i \in 1..Len(log) : log[i].market = id /\ log[i].token = token}

C28_ArbSignalVerified ==
    [][/\ arb_scan'.signals # arb_scan.signals =>
            LET sig == arb_scan'.signals[Len(arb_scan'.signals)]
                log == arb_scan.fetched
                ys == FetchesOf(log, sig.market, "YES")
                ns == FetchesOf(log, sig.market, "NO")
            IN  /\ sig.side = "ARB"
                /\ ys # {} /\ ns # {}
                /\ \A y \in ys, n \in ns :
                    LET sum == RAdd(log[y].ask, log[n].ask)
                    IN  /\ log[y].ask # None /\ log[n].ask # None
                        /\ sig.edge_pct =
                            RScale(100, RSub(RSub(RInt(1), sum),
                                RScale(2, RMul(sum, Rat(2, 1000)))))
                /\ RLe(Rat(15, 10), sig.edge_pct)
       /\ (arb_scan.pc = "decide" /\ (arb_scan.yes_ask = None \/ arb_scan.no_ask = None))
            => arb_scan'.signals = arb_scan.signals
       /\ arb_scan'.result # arb_scan.result =>
            \A i \in 1..Len(arb_scan'.result) :
                \E j \in 1..Len(arb_scan.signals) :
                    arb_scan'.result[i] = arb_scan.signals[j]
      ]_vars

\* a finished call with an emitted signal and a market dropped for a
\* missing ask
C28_Witness ==
    /\ arb_scan.pc = "idle"
    /\ Len(arb_scan.result) = 1
    /\ Len(arb_scan.markets) = 2
    /\ \E i \in 1..Len(arb_scan.fetched) : arb_scan.fetched[i].ask = None

\* a requested strategy that is in the registry and returns normally
Healthy(run) == run.name \in STRATEGY_REGISTRY /\ ~run.raises

\* the signals the healthy strategies of a call returned that reach
\* min_edge_pct
Candidates(call) ==
    {s \in UNION {{call.strategies[k].signals[i] :
                        i \in 1..Len(call.strategies[k].signals)} :
                  k \in {k \in 1..Len(call.strategies) : Healthy(call.strategies[k])}} :
        RLe(call.min_edge_pct, s.edge_pct)}

C25_FailedStrategySkipped ==
    (/\ signals_call.called
     /\ \E k \in 1..Len(signals_call.strategies) : ~Healthy(signals_call.strategies[k]))
    => LET result == signals_call.result
       IN  /\ ~signals_call.error
           /\ \A c \in Candidates(signals_call) :
                \/ \E i \in 1..Len(result) :
                    /\ result[i].market = c.market
                    /\ result[i].side = c.side
                    /\ RLe(score(c), score(result[i]))
                \/ /\ Len(result) = signals_call.max_results
                   /\ \A i \in 1..Len(result) : RLe(score(c), score(result[i]))

\* a call with an unknown name, a raising strategy and a healthy one whose
\* signals were returned
C25_Witness ==
    /\ signals_call.called
    /\ \E k \in 1..Len(signals_call.strategies) :
        signals_call.strategies[k].name \notin STRATEGY_REGISTRY
    /\ \E k \in 1..Len(signals_call.strategies) :
        signals_call.strategies[k].raises
    /\ ~signals_call.error
    /\ Len(signals_call.result) = 2

\* the dollars committed to the open bets: the sum of their cost bases
RECURSIVE Committed(_)
Committed(bets) ==
    IF bets = {} THEN RZero
    ELSE LET b == CHOOSE x \in bets : TRUE
         IN  RAdd(b.size, Committed(bets \ {b}))

\* bankroll - reserve, in dollars
Spendable == RSub(RInt(bankroll), Rat(bankroll * reserve_percent, 100))

\* C29: a bet placed by the scan cycle has the dollar size
\* min(max_bet_size, 0.25 * (bankroll - reserve - open_value)) with open_value
\* the dollars committed to the open bets, is of $5 or more and is placed
\* with fewer than max_open_positions bets open; the dollars committed never
\* exceed bankroll - reserve
C29_BetSize ==
    [][/\ \A b \in active_bets' \ active_bets :
            /\ b.size = RMin(RInt(max_bet_size),
                             RDivInt(RSub(Spendable, Committed(active_bets)), 4))
            /\ ~RLt(b.size, RInt(5))
            /\ Cardinality(active_bets) < max_open_positions
       /\ RLe(Committed(active_bets'), Spendable)
      ]_vars

\* what the claim says of order o after a poll that got the answer api
PollOutcome(o, api) ==
    LET ord == orders'[o]
    IN  /\ ord.status =
            IF api.status \in {"MATCHED", "FILLED"} \/ 1000 * ord.filled_size >= 999 * ord.size
            THEN "MATCHED"
            ELSE IF api.status = "CANCELLED" THEN "CANCELLED"
            ELSE IF ord.filled_size > 0 THEN "PARTIALLY_FILLED"
            ELSE "LIVE"
        /\ ord.status = "CANCELLED" => cancelCalls'[o] = cancelCalls[o] + 1
        /\ pending'[o].status = ord.status
        /\ pending'[o].filled_size = ord.filled_size
        /\ pending'[o].avg_fill_price = ord.avg_fill_price
        /\ fillCalls'[o] # fillCalls[o] =>
            /\ fillCalls'[o] = Append(fillCalls[o], LastFill(o))
            /\ pending'[o].filled_size = orders[o].filled_size + LastFill(o).size

\* C30: after a successful poll of an order its status is MATCHED if the
\* exchange reports MATCHED or FILLED or filled_size >= 0.999 * size, otherwise
\* CANCELLED (and on_cancel was fired) if the exchange reports CANCELLED,
\* otherwise PARTIALLY_FILLED if filled_size > 0 and LIVE if not; the Store
\* row holds the same status and fill progress, the fill delivered to on_fill
\* in this poll included
C30_PollStatusPersisted ==
    [][pollQ # <<>> =>
          \A api \in Responses(Head(pollQ)) :
              CheckOrder(api) => PollOutcome(Head(pollQ), api)
      ]_vars

\* an order cancelled on the exchange after a partial fill was polled: the
\* fill was delivered and the row says CANCELLED with the fill
C30_Witness ==
    \E o \in OrderIds :
       /\ orders[o].status = "CANCELLED" /\ pending[o].status = "CANCELLED"
       /\ exch[o].status = "CANCELLED"
       /\ pending[o].filled_size > 0
       /\ pending[o].filled_size < orders[o].size
       /\ Len(fillCalls[o]) = 1 /\ cancelCalls[o] = 1

\* C31: a poll in which get_order raises or returns nothing leaves the
\* order's status, filled_size and avg_fill_price, its Store row and the
\* Portfolio as they were, fires neither on_fill nor on_cancel, and an order
\* that was active stays among those the next cycle's snapshot takes
C31_FailedPollChangesNothing ==
    [][CheckOrderError =>
          LET o == Head(pollQ)
          IN  /\ orders'[o] = orders[o]
              /\ pending'[o] = pending[o]
              /\ UNCHANGED <<positions, realized_pnl, trades, dbPositions>>
              /\ UNCHANGED <<fillCalls, cancelCalls>>
              /\ ~is_terminal(orders[o]) =>
                    \E i \in 1..Len(ActiveFrom(orders', 1)) :
                        ActiveFrom(orders', 1)[i] = o
      ]_vars

\* a failed poll of a partly filled order whose fill was delivered before,
\* while the exchange holds more than the tracker knows
C31_Witness ==
    /\ pollQ # <<>>
    /\ orders[Head(pollQ)].status = "PARTIALLY_FILLED"
    /\ Len(fillCalls[Head(pollQ)]) = 1
    /\ SumSize(exch[Head(pollQ)].trades) > orders[Head(pollQ)].filled_size

\* C32: under every interleaving of first accesses to clients.auth the
\* authenticated client is initialised at most once; when the initialisation
\* failed the error is recorded, every later access returns no client and
\* starts no further initialisation, and the read client, once made, stays
\* and is still handed out.
C32_AuthInitOnce ==
    [][/\ auth_client'.runs <= 1
       /\ auth_client'.error => (auth_initialized' /\ ~auth_client'.ready)
       /\ auth_client.error =>
             /\ auth_client' = auth_client
             /\ \A t \in Threads :
                   /\ (thread_pc[t] \in {"auth", "auth_locked"} /\ thread_pc'[t] # thread_pc[t])
                         => (thread_pc'[t] \in {"idle", "auth_blocked"} /\ thread_client'[t] = "none")
                   /\ thread_pc'[t] # "deriving"
                   /\ (thread_pc[t] = "idle" /\ thread_pc'[t] = "wait")
                         => (read_client /\ thread_client'[t] = "read")
                   /\ (thread_pc[t] = "read_locked" /\ thread_pc'[t] # "read_locked")
                         => (read_client' /\ thread_pc'[t] = "wait" /\ thread_client'[t] = "read")
       /\ read_client => read_client'
      ]_vars

\* the initialisation failed while a second thread had already passed the
\* unlocked test, and a thread is calling through the read client
C32_Witness ==
    /\ auth_client.error
    /\ auth_client.runs = 1
    /\ \E t \in Threads : thread_pc[t] \in {"auth_blocked", "auth_locked"}
    /\ \E t \in Threads : thread_pc[t] = "calling" /\ thread_client[t] = "read"

\* C33: any two rate-limited calls, through either gateway client and on
\* any thread, start at least the minimum interval apart.
C33_OneSharedBucket ==
    [][\A t \in Threads :
          (thread_pc[t] = "sleeping" /\ thread_pc'[t] = "calling")
             => \A c \in Clients : now - last_call_time[c] >= MinInterval
      ]_vars

\* C34: under every interleaving of poll_once() with the poll loop and of
\* start()/stop()/start(), at most one poll of an order is in progress at a
\* time, and what on_fill has been given for an order never exceeds what the
\* exchange has matched on it (no increment is delivered twice).
C34_SinglePollSingleDelivery ==
    /\ \A w1, w2 \in Workers :
          (w1 # w2 /\ workers[w1].pc = "got" /\ workers[w2].pc = "got")
             => Head(workers[w1].active) # Head(workers[w2].active)
    /\ \A o \in OrderIds : CallSum(fillCalls[o]) <= SumSize(exch[o].trades)

\* C35: once cancel_tracking(order_id) has returned, the order is CANCELLED
\* in memory and in the Store and stays so: no later poll step changes its
\* status or delivers on_fill for it, even a step of a poll cycle that had
\* selected the order before; and cancel_tracking sends no cancel to the
\* exchange.
C35_CancelTrackingIsFinal ==
    [][/\ \A o \in OrderIds :
             (CancelTracking(o) /\ orders[o].status # "NONE")
                => /\ orders'[o].status = "CANCELLED"
                   /\ pending'[o].status = "CANCELLED"
                   /\ exch' = exch
       /\ (pollQ # <<>> /\ pollQ' = Tail(pollQ)
              /\ orders[Head(pollQ)].status = "CANCELLED"
              /\ pending[Head(pollQ)].status = "CANCELLED")
             => /\ orders'[Head(pollQ)].status = "CANCELLED"
                /\ pending'[Head(pollQ)].status = "CANCELLED"
                /\ fillCalls'[Head(pollQ)] = fillCalls[Head(pollQ)]
      ]_vars

\* C36: at all times the filled_size of a tracked order is the sum of the
\* fill sizes for which on_fill completed; a fill whose on_fill raised is
\* not lost.
C36_FilledSizeIsDelivered ==
    \A o \in OrderIds :
        orders[o].status # "NONE" => orders[o].filled_size = CallSum(fillCalls[o])

\* C37: with every entry validated by Trader.buy, the sum of the Portfolio's
\* cost bases never exceeds max_total_exposure, also when several BUY orders
\* are accepted while earlier ones are still live and all fill later; and a
\* BUY that fails validation posts no order and changes no state.
C37_ExposureWithinCap ==
    RLe(get_total_exposure(positions), RInt(max_total_exposure * 100))

\* C38: once cancel_order(id) has returned True for an AutoOrder, its state
\* stays CANCELLED and no market sell is submitted for it, under every
\* interleaving with the monitor thread's check and execute.
C38_CancelledStaysCancelled ==
    [][\A a \in cancel_returned :
          /\ autoOrders'[a].state = "CANCELLED"
          /\ sellCalls'[a] = sellCalls[a]
      ]_vars

\* C39: when a turn of the scan loop has had at least one BUY accepted for
\* a market (one accepted leg of an arbitrage included), the market is
\* recorded as an active bet at the end of the turn, so that no later cycle
\* enters the market again.
C39_AcceptedEntryIsRecorded ==
    [][(scan.busy /\ scan' # scan /\ scan'.arb = ""
          /\ (nextOid' > nextOid \/ scan.arb = "ok"))
         => active_bets' # {}
      ]_vars

\* C40: when the tracker stops tracking an order through the stale path
\* (status CANCELLED or EXPIRED), every unit the exchange has matched on the
\* order has been delivered to on_fill.
C40_StaleOrderFullyDelivered ==
    [][(\E c \in {"ok", "refused", "raise"} : CheckOrderStale(c))
         => CallSum(fillCalls'[Head(pollQ)]) >= SumSize(exch'[Head(pollQ)].trades)
      ]_vars

====
